---------------------------- MODULE Spec2Model ----------------------------
(***************************************************************************)
(* ByteProbe forensic core: the signature carving engine                   *)
(* (core/forensics/file_carver.py, file_signatures.py, threads.py) and the *)
(* timestamp anomaly analyzer (core/forensics/timestamp_analyzer.py).      *)
(*                                                                         *)
(* Bytes are the integers 0..255 and the signature registry carries the    *)
(* byte patterns of the source.  Sizes are scaled down so that images of   *)
(* a few chunks can be enumerated: the scan chunk, the retained tail, the  *)
(* minimum carve size, the hash prefix and the per-signature size caps     *)
(* keep the order they have in the source                                  *)
(* (longest header < MinSize < TailLen < ChunkSize <= every max_size).     *)
(* The image is read through PyTSKParser (parser.img_info is present).     *)
(***************************************************************************)
EXTENDS Integers, Sequences, FiniteSets, TLC

VARIABLES
    image,        \* the bytes of the disk image
    file_types,   \* FileCarverThread.file_types / carve_files(file_types)
    kind,         \* carver class: "Basic" or "Smart" (FileCarverThread builds Smart)
    pc,           \* position of the carve task
    carver,       \* FileCarverThread.carver is set (the carver object exists)
    stop_carving, \* BasicFileCarver._stop_carving
    parser_open,  \* parser.img_info is set (open_image succeeded, close not yet called)
    offset,       \* carve_files: offset
    buffer,       \* carve_files: buffer
    chunk_len,    \* carve_files: len(chunk) of the chunk being processed
    hits,         \* header occurrences of the current buffer not yet carved
    carved_files, \* BasicFileCarver.carved_files
    files,        \* the output directory: path -> bytes
    now,          \* wall clock, in whole seconds
    returned,     \* the list carve_files returned
    finished,     \* the finished(bool, str) signal of FileCarverThread
    attempts,     \* history: one entry per call of _carve_single_file
    chunks_read,  \* history: number of scan chunks read
    open_failed,  \* history: parser.open_image returned False
    stop_requested, \* history: stop() was called while chunks were still unread
    file_entry,   \* analyze_timestamps(file_entry): the FileEntry analysed
    current_time, \* _check_future_timestamps: datetime.now() of the call
    analysis,     \* what analyze_timestamps returned (<<>> before the call)
    tpc,          \* position of the caller of the analyzer
    entries,      \* analyze_directory(entries): the list of FileEntry
    results,      \* what analyze_directory returned (<<>> before the call)
    disk,         \* the files on disk: path -> <<>> (no file) or <<bytes>>
    hash_db_path, \* HashVerifier.hash_db_path is set (a case is active)
    file_hashes,  \* the rows of table file_hashes, in rowid order
    next_id,      \* the next value of the AUTOINCREMENT id
    tick,         \* the clock of the hash service, in microseconds
    call,         \* the last call of the hash service and what it gave
    file_system,  \* the file system of the image: its directory tree
    fs_info,      \* PyTSKParser.fs_info is set (open_file_system succeeded)
    walk_stack,   \* walk_file_system: the suspended walk_directory generators
    yields,       \* the entries walk_file_system has yielded so far
    wpc,          \* position of the consumer of walk_file_system
    parser,       \* an IImageParser object: its class and its attributes
    reply,        \* the last call made on the parser: <<method, value returned>>
    closes,       \* history: the calls of close() since the last open_image
    parse_thread, \* the viewer's FileSystemParseThread and its finished signal
    current_parser, \* FileSystemViewerWidget.current_parser is set
    hash_thread   \* the viewer's HashCalculationThread, its entries and results

cvars == <<image, file_types, kind, pc, carver, stop_carving, parser_open, offset,
           buffer, chunk_len, hits, carved_files, files, now, returned, finished,
           attempts, chunks_read, open_failed, stop_requested>>

tvars == <<file_entry, current_time, analysis, tpc, entries, results>>

hvars == <<disk, hash_db_path, file_hashes, next_id, tick, call>>

wvars == <<file_system, fs_info, walk_stack, yields, wpc>>

pvars == <<parser, reply, closes, parse_thread, current_parser, hash_thread>>

vars == <<cvars, tvars, hvars, wvars, pvars>>

---------------------------------------------------------------------------
(* Scaled program constants *)

\* chunk_size = 1024 * 1024 in carve_files
ChunkSize == 24
\* buffer[-1024:] in carve_files
TailLen == 18
\* min(1024 * 1024, ...) in _carve_single_file
CarveChunk == 24
\* len(file_data) < 512 in _carve_single_file
MinSize == 17
\* file_data[:1024] for the file name hash
HashPrefix == 18

(* Bounds of the model *)

\* an image is a concatenation of at most MaxPieces pieces
MaxPieces == 3
\* the clock takes the values 0..MaxClock
MaxClock == 1
\* at most MaxErrors carves of a scan hit an I/O error
MaxErrors == 1

---------------------------------------------------------------------------
(* Byte strings *)

Min(a, b) == IF a < b THEN a ELSE b

Zeros(n) == [i \in 1..n |-> 0]

\* bytes.find(sub, start): lowest index >= start (0-based) of an occurrence, or -1
RECURSIVE Find(_, _, _)
Find(s, sub, start) ==
    IF start + Len(sub) > Len(s) THEN -1
    ELSE IF SubSeq(s, start + 1, start + Len(sub)) = sub THEN start
    ELSE Find(s, sub, start + 1)

\* bytes.startswith / bytes.endswith
StartsWith(s, p) == Len(s) >= Len(p) /\ SubSeq(s, 1, Len(p)) = p
EndsWith(s, p) == Len(s) >= Len(p) /\ SubSeq(s, Len(s) - Len(p) + 1, Len(s)) = p

\* s[:n] and s[-n:]
Prefix(s, n) == SubSeq(s, 1, Min(n, Len(s)))
LastN(s, n) == SubSeq(s, Len(s) - Min(n, Len(s)) + 1, Len(s))

---------------------------------------------------------------------------
(* The signature registry.  None (no header, no footer) is the empty       *)
(* string: the source tests both with "if not sig.header" and              *)
(* "if signature.footer".  max_size is scaled: 20MB, 50MB, 100MB, 500MB,   *)
(* 1GB and 4GB become 28, 32, 36, 40, 44 and 48, txt's 10MB becomes 26.    *)

FileSignature(ext, hdr, ftr, max) ==
    [extension |-> ext, header |-> hdr, footer |-> ftr, max_size |-> max]

FILE_SIGNATURES ==
    [ jpg  |-> FileSignature("jpg",  <<255, 216, 255>>, <<255, 217>>, 32),
      png  |-> FileSignature("png",  <<137, 80, 78, 71, 13, 10, 26, 10>>,
                                     <<73, 69, 78, 68, 174, 66, 96, 130>>, 32),
      gif  |-> FileSignature("gif",  <<71, 73, 70, 56, 55, 97>>, <<0, 59>>, 28),
      pdf  |-> FileSignature("pdf",  <<37, 80, 68, 70>>, <<37, 37, 69, 79, 70>>, 40),
      docx |-> FileSignature("docx", <<80, 75, 3, 4>>, <<>>, 36),
      xlsx |-> FileSignature("xlsx", <<80, 75, 3, 4>>, <<>>, 36),
      zip  |-> FileSignature("zip",  <<80, 75, 3, 4>>, <<80, 75, 5, 6>>, 44),
      mp4  |-> FileSignature("mp4",  <<0, 0, 0, 32, 102, 116, 121, 112>>, <<>>, 48),
      exe  |-> FileSignature("exe",  <<77, 90>>, <<>>, 40),
      txt  |-> FileSignature("txt",  <<>>, <<>>, 26) ]

\* the keys of FILE_SIGNATURES in insertion order
SignatureOrder ==
    <<"jpg", "png", "gif", "pdf", "docx", "xlsx", "zip", "mp4", "exe", "txt">>

Tags == DOMAIN FILE_SIGNATURES

ALTERNATIVE_HEADERS ==
    [ gif  |-> << <<71, 73, 70, 56, 55, 97>>, <<71, 73, 70, 56, 57, 97>> >>,
      jpg  |-> << <<255, 216, 255, 224>>, <<255, 216, 255, 225>>,
                  <<255, 216, 255, 232>> >>,
      docx |-> << <<80, 75, 3, 4, 20, 0, 6, 0>> >>,
      xlsx |-> << <<80, 75, 3, 4, 20, 0, 6, 0>> >> ]

AlternativesOf(ext) ==
    IF ext \in DOMAIN ALTERNATIVE_HEADERS
    THEN {ALTERNATIVE_HEADERS[ext][i] : i \in DOMAIN ALTERNATIVE_HEADERS[ext]}
    ELSE {}

\* carve_files: the signatures dict as the sequence of its keys.
\* file_types empty or None: the whole registry; otherwise the known tags of
\* file_types in order of first occurrence.
RECURSIVE KnownTags(_, _)
KnownTags(fts, seen) ==
    IF fts = <<>> THEN <<>>
    ELSE IF Head(fts) \in Tags /\ Head(fts) \notin seen
         THEN <<Head(fts)>> \o KnownTags(Tail(fts), seen \cup {Head(fts)})
         ELSE KnownTags(Tail(fts), seen)

\* Signatures with the selection ignored: the whole registry is searched
SignaturesSelectionIgnored(fts) == SignatureOrder

Signatures(fts) == IF fts = <<>> THEN SignatureOrder ELSE KnownTags(fts, {})

---------------------------------------------------------------------------
(* The image as PyTSKParser exposes it *)

\* img_info.get_size()
ImageSize == Len(image)

\* img_info.read(offset, length): short at the end of the image
ImgRead(off, n) == SubSeq(image, off + 1, Min(off + n, Len(image)))

---------------------------------------------------------------------------
(* The output directory *)

NoFiles == [p \in {} |-> <<>>]

\* open(filepath, 'wb') and f.write(data)
WriteFile(fs, path, data) ==
    [q \in DOMAIN fs \cup {path} |-> IF q = path THEN data ELSE fs[q]]

\* os.remove(path)
RemoveFile(fs, path) == [q \in DOMAIN fs \ {path} |-> fs[q]]

\* carved_<timestamp>_<md5(file_data[:1024])[:8]>.<extension>: the name is a
\* function of the second, of the first HashPrefix bytes and of the extension
FileName(t, data, ext) ==
    [timestamp |-> t, file_hash |-> Prefix(data, HashPrefix), extension |-> ext]

---------------------------------------------------------------------------
(* BasicFileCarver._carve_single_file *)

\* ReadLoop with the output cut before the footer instead of after it
RECURSIVE ReadLoopFooterExcluded(_, _, _, _)
ReadLoopFooterExcluded(signature, max_offset, current_offset, file_data) ==
    IF ~(current_offset < max_offset /\ Len(file_data) < signature.max_size)
    THEN [file_data |-> file_data, found_footer |-> FALSE]
    ELSE LET chunk_size == Min(CarveChunk, signature.max_size - Len(file_data))
             chunk == ImgRead(current_offset, chunk_size)
             data == file_data \o chunk
             footer_pos == IF signature.footer # <<>>
                           THEN Find(data, signature.footer, 0) ELSE -1
         IN IF chunk = <<>>
            THEN [file_data |-> file_data, found_footer |-> FALSE]
            ELSE IF footer_pos # -1
            THEN [file_data |-> SubSeq(data, 1, footer_pos), found_footer |-> TRUE]
            ELSE ReadLoopFooterExcluded(signature, max_offset,
                                        current_offset + chunk_size, data)

\* ReadLoop reading CarveChunk bytes at a time whatever room the cap leaves
RECURSIVE ReadLoopUncapped(_, _, _, _)
ReadLoopUncapped(signature, max_offset, current_offset, file_data) ==
    IF ~(current_offset < max_offset /\ Len(file_data) < signature.max_size)
    THEN [file_data |-> file_data, found_footer |-> FALSE]
    ELSE LET chunk_size == CarveChunk
             chunk == ImgRead(current_offset, chunk_size)
             data == file_data \o chunk
             footer_pos == IF signature.footer # <<>>
                           THEN Find(data, signature.footer, 0) ELSE -1
         IN IF chunk = <<>>
            THEN [file_data |-> file_data, found_footer |-> FALSE]
            ELSE IF footer_pos # -1
            THEN [file_data |-> SubSeq(data, 1, footer_pos + Len(signature.footer)),
                  found_footer |-> TRUE]
            ELSE ReadLoopUncapped(signature, max_offset, current_offset + chunk_size, data)

\* the largest len(file_data) the read loop passes through
RECURSIVE ReadLoopPeak(_, _, _, _)
ReadLoopPeak(signature, max_offset, current_offset, file_data) ==
    IF ~(current_offset < max_offset /\ Len(file_data) < signature.max_size)
    THEN Len(file_data)
    ELSE LET chunk_size == Min(CarveChunk, signature.max_size - Len(file_data))
             chunk == ImgRead(current_offset, chunk_size)
             data == file_data \o chunk
             footer_pos == IF signature.footer # <<>>
                           THEN Find(data, signature.footer, 0) ELSE -1
         IN IF chunk = <<>>
            THEN Len(file_data)
            ELSE IF footer_pos # -1
            THEN Len(data)
            ELSE ReadLoopPeak(signature, max_offset, current_offset + chunk_size, data)

\* the read loop: until the footer is found, the cap is reached or the image ends
RECURSIVE ReadLoop(_, _, _, _)
ReadLoop(signature, max_offset, current_offset, file_data) ==
    IF ~(current_offset < max_offset /\ Len(file_data) < signature.max_size)
    THEN [file_data |-> file_data, found_footer |-> FALSE]
    ELSE LET chunk_size == Min(CarveChunk, signature.max_size - Len(file_data))
             chunk == ImgRead(current_offset, chunk_size)
             data == file_data \o chunk
             footer_pos == IF signature.footer # <<>>
                           THEN Find(data, signature.footer, 0) ELSE -1
         IN IF chunk = <<>>
            THEN [file_data |-> file_data, found_footer |-> FALSE]
            ELSE IF footer_pos # -1
            THEN [file_data |-> SubSeq(data, 1, footer_pos + Len(signature.footer)),
                  found_footer |-> TRUE]
            ELSE ReadLoop(signature, max_offset, current_offset + chunk_size, data)

\* BasicCarve without the minimum size test of line 160
BasicCarveNoMinimum(signature, start_offset, max_offset, fs, t, fail) ==
    LET r == ReadLoop(signature, max_offset, start_offset, <<>>)
        file_data == r.file_data
        filename == FileName(t, file_data, signature.extension)
    IN [result |-> << [filename |-> filename,
                       path |-> filename,
                       type |-> signature.extension,
                       size |-> Len(file_data),
                       offset |-> start_offset,
                       footer_found |-> r.found_footer,
                       hash_md5 |-> file_data] >>,
        files |-> WriteFile(fs, filename, file_data),
        size |-> Len(file_data),
        found_footer |-> r.found_footer,
        error |-> FALSE,
        wrote |-> TRUE]

\* BasicCarve with lines 163-165 returning None when the footer is missing
BasicCarveFooterRequired(signature, start_offset, max_offset, fs, t, fail) ==
    LET r == ReadLoop(signature, max_offset, start_offset, <<>>)
        file_data == r.file_data
        filename == FileName(t, file_data, signature.extension)
        none == [result |-> <<>>, files |-> fs, size |-> Len(file_data),
                 found_footer |-> r.found_footer, error |-> FALSE, wrote |-> FALSE]
    IN IF fail = "read"
       THEN [none EXCEPT !.size = -1, !.found_footer = FALSE, !.error = TRUE]
       ELSE IF Len(file_data) < MinSize THEN none
       ELSE IF signature.footer # <<>> /\ ~r.found_footer THEN none
       ELSE IF fail = "open" THEN [none EXCEPT !.error = TRUE]
       ELSE IF fail = "write"
       THEN [none EXCEPT !.error = TRUE, !.wrote = TRUE,
                         !.files = WriteFile(fs, filename, <<>>)]
       ELSE [result |-> << [filename |-> filename,
                            path |-> filename,
                            type |-> signature.extension,
                            size |-> Len(file_data),
                            offset |-> start_offset,
                            footer_found |-> r.found_footer,
                            hash_md5 |-> file_data] >>,
             files |-> WriteFile(fs, filename, file_data),
             size |-> Len(file_data),
             found_footer |-> r.found_footer,
             error |-> FALSE,
             wrote |-> TRUE]

\* The outcome of one call: result is <<>> for None and <<record>> otherwise,
\* files is the output directory afterwards; size, found_footer, error and
\* wrote describe the call for the history.
\* fail: "none", or the step that raises: "read" (img_info.read), "open"
\* (open(filepath, 'wb')), "write" (f.write, which leaves the truncated file).
BasicCarve(signature, start_offset, max_offset, fs, t, fail) ==
    LET r == ReadLoop(signature, max_offset, start_offset, <<>>)
        file_data == r.file_data
        filename == FileName(t, file_data, signature.extension)
        none == [result |-> <<>>, files |-> fs, size |-> Len(file_data),
                 found_footer |-> r.found_footer, error |-> FALSE, wrote |-> FALSE]
    IN IF fail = "read"
       THEN [none EXCEPT !.size = -1, !.found_footer = FALSE, !.error = TRUE]
       ELSE IF Len(file_data) < MinSize THEN none
       ELSE IF fail = "open" THEN [none EXCEPT !.error = TRUE]
       ELSE IF fail = "write"
       THEN [none EXCEPT !.error = TRUE, !.wrote = TRUE,
                         !.files = WriteFile(fs, filename, <<>>)]
       ELSE [result |-> << [filename |-> filename,
                            path |-> filename,
                            type |-> signature.extension,
                            size |-> Len(file_data),
                            offset |-> start_offset,
                            footer_found |-> r.found_footer,
                            hash_md5 |-> file_data] >>,
             files |-> WriteFile(fs, filename, file_data),
             size |-> Len(file_data),
             found_footer |-> r.found_footer,
             error |-> FALSE,
             wrote |-> TRUE]

---------------------------------------------------------------------------
(* SmartFileCarver *)

\* f.read(1024) in _validate_pdf
PdfProbe == 18

ValidateJpeg(fs, filepath) ==
    /\ filepath \in DOMAIN fs
    /\ StartsWith(fs[filepath], <<255, 216>>)
    /\ EndsWith(fs[filepath], <<255, 217>>)

ValidatePdf(fs, filepath) ==
    /\ filepath \in DOMAIN fs
    /\ StartsWith(Prefix(fs[filepath], PdfProbe), <<37, 80, 68, 70>>)

SmartCarve(signature, start_offset, max_offset, fs, t, fail) ==
    LET b == BasicCarve(signature, start_offset, max_offset, fs, t, fail)
        discard == [b EXCEPT !.result = <<>>,
                             !.files = RemoveFile(b.files, b.result[1].path),
                             !.wrote = FALSE]
    IN IF b.result # <<>>
       THEN IF signature.extension \in {"jpg", "jpeg"}
            THEN IF ~ValidateJpeg(b.files, b.result[1].path) THEN discard ELSE b
            ELSE IF signature.extension = "pdf"
            THEN IF ~ValidatePdf(b.files, b.result[1].path) THEN discard ELSE b
            ELSE b
       ELSE b

\* self._carve_single_file, dispatched on the carver's class
CarveSingleFile(k, signature, start_offset, max_offset, fs, t, fail) ==
    IF k = "Smart"
    THEN SmartCarve(signature, start_offset, max_offset, fs, t, fail)
    ELSE BasicCarve(signature, start_offset, max_offset, fs, t, fail)

---------------------------------------------------------------------------
(* carve_files: the header search of one buffer *)

\* the while True loop: buffer.find(sig.header, header_pos), header_pos += 1
RECURSIVE HeaderPositions(_, _, _)
HeaderPositions(buf, header, header_pos) ==
    LET p == Find(buf, header, header_pos)
    IN IF p = -1 THEN <<>> ELSE <<p>> \o HeaderPositions(buf, header, p + 1)

\* HeaderHits with file_offset taken as offset + header_pos, the retained
\* tail not subtracted
RECURSIVE HeaderHitsTailIgnored(_, _, _, _)
HeaderHitsTailIgnored(sigs, buf, off, clen) ==
    IF sigs = <<>> THEN <<>>
    ELSE LET sig == FILE_SIGNATURES[Head(sigs)]
             P == IF sig.header = <<>> THEN <<>>
                  ELSE HeaderPositions(buf, sig.header, 0)
         IN [i \in 1..Len(P) |-> [ext |-> Head(sigs), file_offset |-> off + P[i]]]
            \o HeaderHitsTailIgnored(Tail(sigs), buf, off, clen)

\* for ext, sig in signatures.items(): every occurrence with its file_offset,
\* in the order in which the loops reach them
RECURSIVE HeaderHits(_, _, _, _)
HeaderHits(sigs, buf, off, clen) ==
    IF sigs = <<>> THEN <<>>
    ELSE LET sig == FILE_SIGNATURES[Head(sigs)]
             P == IF sig.header = <<>> THEN <<>>
                  ELSE HeaderPositions(buf, sig.header, 0)
         IN [i \in 1..Len(P) |->
                [ext |-> Head(sigs),
                 file_offset |-> off + P[i] - (Len(buf) - clen)]]
            \o HeaderHits(Tail(sigs), buf, off, clen)

---------------------------------------------------------------------------
(* The scans that are explored *)

\* the filler pieces: a run of zero bytes two bytes short of a chunk, so that
\* what follows it lies across or near a chunk boundary, and one zero byte
Filler == Zeros(ChunkSize - 2)
Pad == Zeros(1)

\* file_types: every registry tag alone, the default (all signatures) and a
\* tag the registry does not know
Selections == {<<t>> : t \in Tags} \cup {<<>>, <<"bmp">>}

\* the alternative headers of a tag that do not begin with its primary header
OtherHeaders(ext) ==
    {a \in AlternativesOf(ext) : ~StartsWith(a, FILE_SIGNATURES[ext].header)}

\* the pieces the images of a selection are built from: filler, and the
\* header, the footer and the other headers of the selected tag
PiecesFor(sel) ==
    IF sel = <<>>
    THEN {Filler, FILE_SIGNATURES["zip"].header}
    ELSE IF sel[1] \notin Tags THEN {Filler}
    ELSE ({Filler, Pad}
          \cup {FILE_SIGNATURES[sel[1]].header, FILE_SIGNATURES[sel[1]].footer}
          \cup OtherHeaders(sel[1])) \ {<<>>}

RECURSIVE Concatenations(_, _)
Concatenations(P, n) ==
    IF n = 0 THEN {<<>>}
    ELSE LET S == Concatenations(P, n - 1)
         IN S \cup {s \o p : s \in S, p \in P}

Images(sel) == Concatenations(PiecesFor(sel), MaxPieces)

\* what can go wrong in one call of _carve_single_file
Failures == {"none", "read", "open", "write"}

ErrorCount == Cardinality({i \in 1..Len(attempts) : attempts[i].error})

---------------------------------------------------------------------------
(* The timestamp analyzer: datetimes, FileEntry and IEEE-754 doubles *)

\* timedelta(days=1) in seconds
Day == 86400

\* the seconds and microseconds of the datetimes enumerated
MaxSecond == 1
MaxMicro == 1

None == <<>>

\* a datetime, as seconds since an epoch and the microsecond field
Datetime(second, microsecond) == <<second, microsecond>>

Second(ts) == ts[1]

Microsecond(ts) == ts[2]

\* datetime.__gt__
After(a, b) ==
    Second(a) > Second(b) \/ (Second(a) = Second(b) /\ Microsecond(a) > Microsecond(b))

\* ts + timedelta(days=d)
PlusDays(ts, d) == Datetime(Second(ts) + d * Day, Microsecond(ts))

\* ts.replace(microsecond=us)
ReplaceMicrosecond(ts, us) == Datetime(Second(ts), us)

\* ts.isoformat(): the microseconds are printed only when they are not zero
Isoformat(ts) == IF Microsecond(ts) = 0 THEN <<Second(ts)>> ELSE ts

FileEntry(path, is_directory, created_time, modified_time, accessed_time, mft_entry) ==
    [path |-> path, is_directory |-> is_directory, created_time |-> created_time,
     modified_time |-> modified_time, accessed_time |-> accessed_time,
     mft_entry |-> mft_entry]

\* [ts for ts in [created, modified, accessed] if ts]
PresentTimestamps(entry) ==
    SelectSeq(<<entry.created_time, entry.modified_time, entry.accessed_time>>,
              LAMBDA ts : ts # None)

\* A double in [0, 8) that is a multiple of 2^-58 (every score and every mean
\* of at most 12 scores of the analyzer is), as the three limbs <<l2, l1, l0>>
\* of its value in units of 2^-58: value = ((l2 * 2^20 + l1) * 2^20 + l0) * 2^-58.
LimbBase == 2^20

Double(l2, l1, l0) == <<l2, l1, l0>>

\* the limbs with the carries of the lower two propagated
Carried(l2, l1, l0) ==
    LET m1 == l1 + (l0 \div LimbBase)
    IN Double(l2 + (m1 \div LimbBase), m1 % LimbBase, l0 % LimbBase)

\* the exact sum of two values (not rounded)
ExactAdd(a, b) == Carried(a[1] + b[1], a[2] + b[2], a[3] + b[3])

\* the number of low bits that the 53-bit significand of s / n cannot hold
DroppedBits(s, n) ==
    IF s[1] < n * 2^13 THEN 0
    ELSE IF s[1] < n * 2^14 THEN 1
    ELSE IF s[1] < n * 2^15 THEN 2
    ELSE IF s[1] < n * 2^16 THEN 3
    ELSE IF s[1] < n * 2^17 THEN 4
    ELSE IF s[1] < n * 2^18 THEN 5 ELSE 6

\* the double nearest to the exact quotient s / n, ties to even
\* (float.__add__ for n = 1, float(Fraction) for a mean)
DoubleRound(s, n) ==
    LET ulp == 2^DroppedBits(s, n)
        d == n * ulp
        t1 == (s[1] % d) * LimbBase + s[2]
        t0 == (t1 % d) * LimbBase + s[3]
        q0 == t0 \div d
        r0 == t0 % d
        up == 2 * r0 > d \/ (2 * r0 = d /\ q0 % 2 = 1)
    IN Carried((s[1] \div d) * ulp, (t1 \div d) * ulp,
               (IF up THEN q0 + 1 ELSE q0) * ulp)

\* float.__add__
DoubleAdd(a, b) == DoubleRound(ExactAdd(a, b), 1)

\* float.__lt__
DoubleLess(a, b) ==
    \/ a[1] < b[1]
    \/ a[1] = b[1] /\ a[2] < b[2]
    \/ a[1] = b[1] /\ a[2] = b[2] /\ a[3] < b[3]

\* DoubleMin without the cap: the first argument whatever the second
DoubleMinUncapped(a, b) == a

\* min(a, b) of Python: b only when b < a
DoubleMin(a, b) == IF DoubleLess(b, a) THEN b ELSE a

\* the literals 0.0, 0.4, 0.3, 0.2, 0.5 and 1.0 as the doubles nearest to them
D0_0 == Double(0, 0, 0)

D0_4 == Double(104857, 629145, 629152)

D0_3 == Double(78643, 209715, 209712)

D0_2 == Double(52428, 838860, 838864)

D0_5 == Double(131072, 0, 0)

D1_0 == Double(262144, 0, 0)

Anomaly(type, description, severity) ==
    [type |-> type, description |-> description, severity |-> severity]

\* _check_identical_timestamps without the truncation to whole seconds
CheckIdenticalFullPrecision(entry) ==
    LET timestamps == PresentTimestamps(entry)
    IN IF Len(timestamps) < 2 THEN FALSE
       ELSE \A i \in 2..Len(timestamps) : timestamps[i] = timestamps[1]

\* _check_identical_timestamps
_check_identical_timestamps(entry) ==
    LET timestamps == PresentTimestamps(entry)
    IN IF Len(timestamps) < 2 THEN FALSE
       ELSE LET first_ts == ReplaceMicrosecond(timestamps[1], 0)
            IN \A i \in 2..Len(timestamps) :
                  ReplaceMicrosecond(timestamps[i], 0) = first_ts

\* _check_timestamp_order: None is <<>>, an anomaly is <<anomaly>>
_check_timestamp_order(entry) ==
    IF /\ entry.created_time # None
       /\ entry.modified_time # None
       /\ After(entry.created_time, entry.modified_time)
    THEN << Anomaly("illogical_order", <<"Created time is after modified time">>,
                    "medium") >>
    ELSE <<>>

\* _check_timestamp_precision
_check_timestamp_precision(entry) ==
    LET timestamps == PresentTimestamps(entry)
        zero_microseconds ==
            \A i \in DOMAIN timestamps : Microsecond(timestamps[i]) = 0
    IN IF zero_microseconds /\ Len(timestamps) >= 2
       THEN << Anomaly("zero_precision",
                       <<"All timestamps have zero microseconds (possible tool usage)">>,
                       "medium") >>
       ELSE <<>>

\* _check_future_timestamps, with t the value of datetime.now()
_check_future_timestamps(entry, t) ==
    LET future_threshold == PlusDays(t, 1)
        timestamps == << <<"created", entry.created_time>>,
                         <<"modified", entry.modified_time>>,
                         <<"accessed", entry.accessed_time>> >>
        future_timestamps ==
            SelectSeq(timestamps,
                      LAMBDA nt : nt[2] # None /\ After(nt[2], future_threshold))
    IN IF future_timestamps # <<>>
       THEN << Anomaly("future_timestamp",
                       <<"Timestamp(s) in the future: ">>
                          \o [i \in DOMAIN future_timestamps |-> future_timestamps[i][1]],
                       "high") >>
       ELSE <<>>

\* MissingTimestamps as not any(...): only when the three are absent
MissingAllTimestamps(entry) ==
    /\ entry.created_time = None
    /\ entry.modified_time = None
    /\ entry.accessed_time = None

\* not all([created_time, modified_time, accessed_time])
MissingTimestamps(entry) ==
    \/ entry.created_time = None
    \/ entry.modified_time = None
    \/ entry.accessed_time = None

\* analyze_timestamps, with t the value of datetime.now()
analyze_timestamps(entry, t) ==
    LET identical == IF _check_identical_timestamps(entry)
                     THEN << Anomaly("identical_timestamps",
                               <<"All timestamps are identical (possible timestomping)">>,
                               "high") >>
                     ELSE <<>>
        c1 == IF identical # <<>> THEN DoubleAdd(D0_0, D0_4) ELSE D0_0
        order_anomaly == _check_timestamp_order(entry)
        c2 == IF order_anomaly # <<>> THEN DoubleAdd(c1, D0_3) ELSE c1
        precision_anomaly == _check_timestamp_precision(entry)
        c3 == IF precision_anomaly # <<>> THEN DoubleAdd(c2, D0_2) ELSE c2
        future_anomaly == _check_future_timestamps(entry, t)
        c4 == IF future_anomaly # <<>> THEN DoubleAdd(c3, D0_5) ELSE c3
    IN IF MissingTimestamps(entry)
       THEN [file_path |-> entry.path,
             anomalies |-> << Anomaly("missing_timestamps",
                                      <<"One or more timestamps are missing">>,
                                      "low") >>,
             confidence |-> D0_0,
             details |-> <<>>]
       ELSE [file_path |-> entry.path,
             anomalies |-> identical \o order_anomaly \o precision_anomaly
                           \o future_anomaly,
             confidence |-> DoubleMin(c4, D1_0),
             details |-> [created |-> IF entry.created_time # None
                                      THEN Isoformat(entry.created_time) ELSE None,
                          modified |-> IF entry.modified_time # None
                                       THEN Isoformat(entry.modified_time) ELSE None,
                          accessed |-> IF entry.accessed_time # None
                                       THEN Isoformat(entry.accessed_time) ELSE None,
                          mft_entry |-> entry.mft_entry]]

\* len(files) > 3 and files[:5] of _find_timestamp_patterns
MassThreshold == 3

SampleSize == 5

\* the longest list of entries enumerated
MaxEntries == 6

Indices(n) == [i \in 1..n |-> i]

\* _find_timestamp_patterns with the directories left out of the groups
FindPatternsFilesOnly(es) ==
    LET ts_key(i) == Isoformat(ReplaceMicrosecond(es[i].modified_time, 0))
        keyed == SelectSeq(Indices(Len(es)),
                           LAMBDA i : es[i].modified_time # None /\ ~es[i].is_directory)
        first == SelectSeq(keyed,
                     LAMBDA i : \A j \in 1..(i - 1) :
                        (es[j].modified_time # None /\ ~es[j].is_directory)
                           => ts_key(j) # ts_key(i))
        group(i) == LET members == SelectSeq(keyed, LAMBDA j : ts_key(j) = ts_key(i))
                    IN [n \in DOMAIN members |-> es[members[n]].path]
        reported == SelectSeq(first, LAMBDA i : Len(group(i)) > MassThreshold)
    IN [n \in DOMAIN reported |->
          [type |-> "mass_timestamp",
           description |-> <<Len(group(reported[n])),
                             " files have identical modification time">>,
           timestamp |-> ts_key(reported[n]),
           file_count |-> Len(group(reported[n])),
           sample_files |-> SubSeq(group(reported[n]), 1,
                                   Min(SampleSize, Len(group(reported[n]))))]]

\* _find_timestamp_patterns: timestamp_groups is a dict, whose keys keep the
\* order of their first insertion; every entry of the list is grouped
_find_timestamp_patterns(es) ==
    LET ts_key(i) == Isoformat(ReplaceMicrosecond(es[i].modified_time, 0))
        keyed == SelectSeq(Indices(Len(es)), LAMBDA i : es[i].modified_time # None)
        first == SelectSeq(keyed,
                     LAMBDA i : \A j \in 1..(i - 1) :
                        es[j].modified_time # None => ts_key(j) # ts_key(i))
        group(i) == LET members == SelectSeq(keyed, LAMBDA j : ts_key(j) = ts_key(i))
                    IN [n \in DOMAIN members |-> es[members[n]].path]
        reported == SelectSeq(first, LAMBDA i : Len(group(i)) > MassThreshold)
    IN [n \in DOMAIN reported |->
          [type |-> "mass_timestamp",
           description |-> <<Len(group(reported[n])),
                             " files have identical modification time">>,
           timestamp |-> ts_key(reported[n]),
           file_count |-> Len(group(reported[n])),
           sample_files |-> SubSeq(group(reported[n]), 1,
                                   Min(SampleSize, Len(group(reported[n]))))]]

\* the exact sum of a list of doubles (statistics._sum)
RECURSIVE ExactSum(_)
ExactSum(scores) ==
    IF scores = <<>> THEN D0_0
    ELSE ExactAdd(Head(scores), ExactSum(Tail(scores)))

\* statistics.mean: the exact mean, converted to the nearest double
Mean(scores) == DoubleRound(ExactSum(scores), Len(scores))

\* max of a non-empty list of doubles
Max(scores) ==
    scores[CHOOSE i \in DOMAIN scores :
              \A j \in DOMAIN scores : ~DoubleLess(scores[i], scores[j])]

\* analyze_directory, with clock[i] the value of datetime.now() while the
\* i-th entry is analysed; statistics is <<>> for the empty dict
analyze_directory(es, clock) ==
    LET analysed == SelectSeq(Indices(Len(es)), LAMBDA i : ~es[i].is_directory)
        file_results == [n \in DOMAIN analysed |->
                            analyze_timestamps(es[analysed[n]], clock[analysed[n]])]
        suspicious_files == SelectSeq(file_results, LAMBDA a : a.anomalies # <<>>)
        confidence_scores == [n \in DOMAIN file_results |-> file_results[n].confidence]
    IN [total_files |-> Len(es),
        suspicious_files |-> suspicious_files,
        patterns |-> _find_timestamp_patterns(es),
        statistics |->
           IF file_results # <<>>
           THEN << [average_confidence |-> Mean(confidence_scores),
                    max_confidence |-> Max(confidence_scores),
                    files_with_anomalies |-> Len(suspicious_files)] >>
           ELSE <<>>]

\* The entries a listing is made of: a file whose three timestamps are one
\* whole second, a file with ordered sub-second timestamps modified in that
\* second, a file without modified time, a directory of that second, and a
\* file modified exactly one day after the earliest clock value.
EntryKinds ==
    { [is_directory |-> FALSE, created_time |-> Datetime(0, 0),
       modified_time |-> Datetime(0, 0), accessed_time |-> Datetime(0, 0)],
      [is_directory |-> FALSE, created_time |-> Datetime(0, 1),
       modified_time |-> Datetime(0, 1), accessed_time |-> Datetime(1, 1)],
      [is_directory |-> FALSE, created_time |-> Datetime(0, 0),
       modified_time |-> None, accessed_time |-> Datetime(0, 0)],
      [is_directory |-> TRUE, created_time |-> Datetime(0, 0),
       modified_time |-> Datetime(0, 0), accessed_time |-> Datetime(0, 0)],
      [is_directory |-> FALSE, created_time |-> Datetime(0, 1),
       modified_time |-> Datetime(Day, 1), accessed_time |-> Datetime(Day, 1)] }

\* the list of entries of the kinds k; the path of the i-th entry is i
EntryList(k) ==
    [i \in DOMAIN k |-> FileEntry(i, k[i].is_directory, k[i].created_time,
                                  k[i].modified_time, k[i].accessed_time, None)]

\* The clock of one call of analyze_directory: it passes from Datetime(0, 0)
\* to Datetime(0, 1) after the first k entries.  Only the values of k after
\* which an entry's analysis depends on the clock are kept: the others give
\* the results of the next smaller one.
DirectoryClocks(es) ==
    { [i \in 1..Len(es) |-> IF i <= k THEN Datetime(0, 0) ELSE Datetime(0, 1)] :
      k \in {0} \cup {i \in 1..Len(es) :
                        analyze_timestamps(es[i], Datetime(0, 0))
                           # analyze_timestamps(es[i], Datetime(0, 1))} }

---------------------------------------------------------------------------
(* The hash service: algorithm names, digests, files *)

\* HashVerifier.SUPPORTED_ALGORITHMS
SUPPORTED_ALGORITHMS == <<"md5", "sha1", "sha256", "sha512">>

\* the algorithm names callers pass
AlgorithmNames == {"md5", "MD5", "sha1", "sha256", "Sha512", "crc32"}

\* str.lower() on the algorithm names
LowerName(alg) ==
    CASE alg = "MD5" -> "md5"
      [] alg = "Sha512" -> "sha512"
      [] OTHER -> alg

Range(seq) == {seq[i] : i \in DOMAIN seq}

\* the algorithms parameter when None: ['md5', 'sha256']
DefaultAlgorithms == <<"md5", "sha256">>

\* ValidAlgorithms without the filter: every name is kept, lower-cased
ValidAlgorithmsUnfiltered(algorithms) ==
    LET given == IF algorithms = None THEN DefaultAlgorithms ELSE algorithms[1]
    IN [i \in DOMAIN given |-> LowerName(given[i])]

\* [alg.lower() for alg in algorithms if alg.lower() in SUPPORTED_ALGORITHMS];
\* the parameter is None or <<list>>
ValidAlgorithms(algorithms) ==
    LET given == IF algorithms = None THEN DefaultAlgorithms ELSE algorithms[1]
        kept == SelectSeq(given, LAMBDA alg : LowerName(alg) \in Range(SUPPORTED_ALGORITHMS))
    IN [i \in DOMAIN kept |-> LowerName(kept[i])]

\* a hex digest: of which bytes under which algorithm, and the letter case
\* of its hex digits (hexdigest() gives lower case)
HexDigest(alg, data, upper) == [algorithm |-> alg, of |-> data, upper |-> upper]

\* str.lower() on a hex digest
LowerHex(digest) == [digest EXCEPT !.upper = FALSE]

\* hashlib.new(alg), update(data), hexdigest()
hexdigest(alg, data) == HexDigest(alg, data, FALSE)

\* calculate_data_hash: a dict from the validated names to their digests
calculate_data_hash(data, algorithms) ==
    [alg \in Range(ValidAlgorithms(algorithms)) |-> hexdigest(alg, data)]

\* the chunk size of calculate_file_hash (64 KiB in the source, scaled)
HashChunk == 2

\* the bytes the read loop of calculate_file_hash feeds to the hashers
RECURSIVE ReadInChunks(_)
ReadInChunks(data) ==
    IF data = <<>> THEN <<>>
    ELSE SubSeq(data, 1, Min(HashChunk, Len(data)))
         \o ReadInChunks(SubSeq(data, Min(HashChunk, Len(data)) + 1, Len(data)))

\* os.path.exists
Exists(d, file_path) == d[file_path] # <<>>

\* calculate_file_hash on disk d; fails is TRUE when reading the file fails.
\* raised is "" when the call returns its value.
calculate_file_hash(d, file_path, algorithms, fails) ==
    LET valid == ValidAlgorithms(algorithms)
    IN IF ~Exists(d, file_path)
       THEN [raised |-> "FileNotFoundError", value |-> <<>>]
       ELSE IF fails
       THEN [raised |-> "Exception", value |-> <<>>]
       ELSE [raised |-> "",
             value |-> [alg \in Range(valid) |->
                          hexdigest(alg, ReadInChunks(d[file_path][1]))]]

\* verify_file_integrity; expected_hashes is a dict from the names given to
\* the digests expected, list(expected_hashes.keys()) is passed on as the
\* algorithms (any order: the result is a dict)
verify_file_integrity(d, file_path, expected_hashes, fails) ==
    LET algorithms == DOMAIN expected_hashes
        listed == CHOOSE list \in [1..Cardinality(algorithms) -> algorithms] :
                     Range(list) = algorithms
        current == calculate_file_hash(d, file_path, <<listed>>, fails)
    IN IF ~Exists(d, file_path)
       THEN [raised |-> "", value |-> [alg \in algorithms |-> FALSE]]
       ELSE IF current.raised # ""
       THEN [raised |-> current.raised, value |-> <<>>]
       ELSE [raised |-> "",
             value |-> [alg \in algorithms |->
                          IF alg \in DOMAIN current.value
                          THEN LowerHex(current.value[alg])
                                  = LowerHex(expected_hashes[alg])
                          ELSE FALSE]]

\* the paths, file contents and algorithm lists enumerated
Paths == {"/a", "/b"}

Contents == {<<>>, <<7>>, <<7, 8, 9>>}

MaxAlgorithms == 2

AlgorithmLists ==
    {None} \cup { <<list>> : list \in UNION {[1..n -> AlgorithmNames] : n \in 0..MaxAlgorithms} }

\* the digest a caller expects of the file at file_path under the name alg:
\* the right one in lower or in upper case, or the digest of other bytes
DigestKinds == {"right", "RIGHT", "wrong"}

ExpectedDigest(d, file_path, alg, which) ==
    LET data == IF Exists(d, file_path) THEN d[file_path][1] ELSE <<>>
    IN CASE which = "right" -> HexDigest(LowerName(alg), data, FALSE)
         [] which = "RIGHT" -> HexDigest(LowerName(alg), data, TRUE)
         [] OTHER -> HexDigest(LowerName(alg), <<1>> \o data, TRUE)

\* the source types of the callers ('carved', 'file_system', 'evidence')
SourceTypes == {"file_system", "carved"}

\* os.path.getsize(file_path) if os.path.exists(file_path) else 0
FileSize(d, file_path) == IF Exists(d, file_path) THEN Len(d[file_path][1]) ELSE 0

\* dict.get(key): None when the key is absent
Get(hashes, key) == IF key \in DOMAIN hashes THEN hashes[key] ELSE None

\* datetime.now() when the clock of the store shows t
Now(t) == Datetime(0, t)

\* a row of the table file_hashes
HashRow(id, file_path, file_size, hashes, calculated_at, source_type) ==
    [id |-> id, file_path |-> file_path, file_size |-> file_size,
     md5_hash |-> Get(hashes, "md5"), sha1_hash |-> Get(hashes, "sha1"),
     sha256_hash |-> Get(hashes, "sha256"), sha512_hash |-> Get(hashes, "sha512"),
     calculated_at |-> calculated_at, source_type |-> source_type]

\* INSERT without the conflict clause: the earlier row of the key stays
InsertKeepingOld(table, row) == table \o <<row>>

\* INSERT OR REPLACE under UNIQUE(file_path, source_type): the row in
\* conflict is deleted and the new row is inserted
InsertOrReplace(table, row) ==
    SelectSeq(table, LAMBDA r : ~(r.file_path = row.file_path
                                   /\ r.source_type = row.source_type))
    \o <<row>>

\* store_file_hash on the table, with the next AUTOINCREMENT id, at clock t;
\* db is FALSE when hash_db_path is None; fails is TRUE when sqlite raises
store_file_hash(db, table, id, d, t, file_path, hashes, source_type, fails) ==
    IF ~db
    THEN [returned |-> FALSE, table |-> table, next_id |-> id]
    ELSE IF fails
    THEN [returned |-> FALSE, table |-> table, next_id |-> id]
    ELSE [returned |-> TRUE,
          table |-> InsertOrReplace(table,
                       HashRow(id, file_path, FileSize(d, file_path), hashes,
                               Isoformat(Now(t)), source_type)),
          next_id |-> id + 1]

\* results[key] = value
Put(dict, key, value) ==
    [k \in DOMAIN dict \cup {key} |-> IF k = key THEN value ELSE dict[k]]

\* the cap of the clock of the store
MaxTick == 1

\* batch_calculate_hashes without the except clause: the first path whose
\* hashing fails ends the batch
BatchAbortingOnError(db, table, id, d, t, file_paths, algorithms, read_fails, store_fails, advance) ==
    LET algs == IF algorithms = None THEN <<DefaultAlgorithms>> ELSE algorithms
        loop[i \in 0..Len(file_paths)] ==
           IF i = 0
           THEN [results |-> <<>>, table |-> table, next_id |-> id, t |-> t,
                 raised |-> ""]
           ELSE LET prev == loop[i - 1]
                    file_path == file_paths[i]
                    hashes == calculate_file_hash(d, file_path, algs, i \in read_fails)
                    stored == store_file_hash(db, prev.table, prev.next_id, d, prev.t,
                                              file_path, hashes.value, "file_system",
                                              i \in store_fails)
                    later == IF advance /\ prev.t < MaxTick THEN prev.t + 1 ELSE prev.t
                IN IF prev.raised # "" THEN prev
                   ELSE IF hashes.raised # ""
                   THEN [prev EXCEPT !.raised = hashes.raised]
                   ELSE IF db
                   THEN [results |-> Put(prev.results, file_path, hashes.value),
                         table |-> stored.table, next_id |-> stored.next_id,
                         t |-> later, raised |-> ""]
                   ELSE [prev EXCEPT !.results = Put(prev.results, file_path, hashes.value),
                                     !.t = later]
    IN loop[Len(file_paths)]

\* batch_calculate_hashes(file_paths, algorithms) without a progress
\* callback: the loop over the paths.  read_fails and store_fails are the
\* positions at which reading the file, or writing the store, fails; the
\* clock advances after each path when advance is TRUE.
batch_calculate_hashes(db, table, id, d, t, file_paths, algorithms, read_fails, store_fails, advance) ==
    LET algs == IF algorithms = None THEN <<DefaultAlgorithms>> ELSE algorithms
        loop[i \in 0..Len(file_paths)] ==
           IF i = 0
           THEN [results |-> <<>>, table |-> table, next_id |-> id, t |-> t,
                 raised |-> ""]
           ELSE LET prev == loop[i - 1]
                    file_path == file_paths[i]
                    hashes == calculate_file_hash(d, file_path, algs, i \in read_fails)
                    stored == store_file_hash(db, prev.table, prev.next_id, d, prev.t,
                                              file_path, hashes.value, "file_system",
                                              i \in store_fails)
                    later == IF advance /\ prev.t < MaxTick THEN prev.t + 1 ELSE prev.t
                IN IF hashes.raised # ""
                   THEN [prev EXCEPT !.results =
                                        Put(prev.results, file_path,
                                            [error |-> hashes.raised])]
                   ELSE IF db
                   THEN [results |-> Put(prev.results, file_path, hashes.value),
                         table |-> stored.table, next_id |-> stored.next_id,
                         t |-> later, raised |-> ""]
                   ELSE [prev EXCEPT !.results = Put(prev.results, file_path, hashes.value),
                                     !.t = later]
    IN loop[Len(file_paths)]

\* the order of two isoformat strings as sqlite compares TEXT: the seconds
\* have a fixed width, and a string without microseconds is a proper prefix
\* of the strings of the same second with microseconds
IsoLess(a, b) ==
    \/ a[1] < b[1]
    \/ /\ a[1] = b[1]
       /\ \/ Len(a) = 1 /\ Len(b) = 2
          \/ Len(a) = 2 /\ Len(b) = 2 /\ a[2] < b[2]

\* the orders of the rows of a table
RowOrders(table) ==
    {[i \in DOMAIN table |-> table[f[i]]] :
        f \in {g \in [DOMAIN table -> DOMAIN table] :
                  \A i, j \in DOMAIN table : i # j => g[i] # g[j]}}

\* SELECT ... FROM file_hashes ORDER BY calculated_at: the row orders sqlite
\* may return (rows of equal calculated_at come in any order)
SelectOrderByCalculatedAt(table) ==
    {rows \in RowOrders(table) :
        \A i, j \in DOMAIN rows :
           i < j => ~IsoLess(rows[j].calculated_at, rows[i].calculated_at)}

\* the columns selected, in order
Columns ==
    <<"file_path", "file_size", "md5_hash", "sha1_hash", "sha256_hash",
      "sha512_hash", "calculated_at", "source_type">>

\* Python's truth value of the cell of a column: a string is false when
\* empty, an integer when 0, None always
Truthy(column, cell) ==
    CASE column = "file_size" -> cell # 0
      [] column \in {"file_path", "source_type"} -> cell # ""
      [] OTHER -> cell # None

\* str(cell): the decimal digits of an integer, a string as it is
Str(column, cell) == IF column = "file_size" THEN ToString(cell) ELSE cell

\* the text between the quotes of a CSV cell: str(cell) if cell else ""
CsvCell(column, cell) == IF Truthy(column, cell) THEN Str(column, cell) ELSE ""

\* the CSV lines after the header: one per row, a cell per column
CsvLines(rows) ==
    [i \in DOMAIN rows |-> [c \in DOMAIN Columns |-> CsvCell(Columns[c], rows[i][Columns[c]])]]

\* the JSON array: one object per row
JsonArray(rows) ==
    [i \in DOMAIN rows |->
       [file_path |-> rows[i].file_path, file_size |-> rows[i].file_size,
        md5 |-> rows[i].md5_hash, sha1 |-> rows[i].sha1_hash,
        sha256 |-> rows[i].sha256_hash, sha512 |-> rows[i].sha512_hash,
        calculated_at |-> rows[i].calculated_at,
        source_type |-> rows[i].source_type]]

\* the formats callers pass, and format.lower()
Formats == {"csv", "JSON", "xml"}

LowerFormat(format) == IF format = "JSON" THEN "json" ELSE format

\* export_hash_report(output_path, format), the rows fetched being rows;
\* fails is TRUE when the database or the output file cannot be used.
\* written is None when no file was written.
export_hash_report(db, rows, format, fails) ==
    IF ~db THEN [returned |-> FALSE, written |-> None]
    ELSE IF fails THEN [returned |-> FALSE, written |-> None]
    ELSE IF LowerFormat(format) = "csv"
    THEN [returned |-> TRUE, written |-> <<[format |-> "csv", lines |-> CsvLines(rows)]>>]
    ELSE IF LowerFormat(format) = "json"
    THEN [returned |-> TRUE, written |-> <<[format |-> "json", data |-> JsonArray(rows)]>>]
    ELSE [returned |-> TRUE, written |-> None]

\* the batches enumerated: lists of at most MaxBatch paths, a path may repeat
MaxBatch == 2

PathLists == UNION {[1..n -> Paths] : n \in 0..MaxBatch}

BatchAlgorithms == {None, << <<"sha1">> >>, << <<"MD5", "crc32">> >>}

\* the stores enumerated: a missing file and a file of one byte, or an empty
\* file and a file of three bytes
StoreDisks ==
    { [p \in Paths |-> IF p = "/a" THEN <<>> ELSE << <<7>> >>],
      [p \in Paths |-> IF p = "/a" THEN << <<>> >> ELSE << <<7, 8, 9>> >>] }

\* the digests callers store: of one content under the default algorithms,
\* of another under md5 and sha1
StoreHashes ==
    { calculate_data_hash(<<7>>, None),
      calculate_data_hash(<<7, 8, 9>>, << <<"md5", "sha1">> >>) }

\* the cap of the number of rows inserted into a store
MaxRecords == 3

NoCall == [op |-> "none"]

---------------------------------------------------------------------------
(* PyTSKParser: the walk of a file system *)

\* the cap of the number of entries of a file system
MaxNodes == 3

\* the cap of the number of entries of one directory
MaxListing == 2

\* the name of the i-th entry of a file system
NodeNames == <<"a", "b", "c", "d", "e">>

\* what an entry is: a file, a directory, a file or a directory whose
\* metadata is unallocated, a directory that open_dir cannot read, an entry
\* of which _create_file_entry makes nothing, or an entry at which the
\* iteration of its directory raises
NodeKinds ==
    {"file", "dir", "deleted_file", "deleted_dir", "broken_dir", "unreadable", "corrupt"}

DirectoryKinds == {"dir", "deleted_dir", "broken_dir"}

\* The part of a file system read so far is a tree of n entries: entry i
\* lies in the directory parent[i], which is the root (0) or an entry read
\* before it
FileSystem(n, parent, nodekind) == [n |-> n, parent |-> parent, kind |-> nodekind]

NoFileSystem == FileSystem(0, <<>>, <<>>)

\* the kinds of the entries a directory may turn out to hold when it is
\* read, the file system having room for budget more entries
Listings(budget) ==
    UNION {[1..k -> NodeKinds] : k \in 0..(IF budget < MaxListing THEN budget ELSE MaxListing)}

\* the file system once the directory dir has been read and found to hold
\* entries of these kinds
ReadDirectory(f, dir, kinds) ==
    FileSystem(f.n + Len(kinds),
               f.parent \o [i \in DOMAIN kinds |-> dir],
               f.kind \o kinds)

\* the path of entry i as the list of the names from the root; "/" is <<>>
RECURSIVE NodePath(_, _)
NodePath(f, i) ==
    IF i = 0 THEN <<>> ELSE Append(NodePath(f, f.parent[i]), NodeNames[i])

\* the directory a path names, -1 when there is none
Resolve(f, path) ==
    IF path = <<>> THEN 0
    ELSE IF \E i \in 1..f.n : NodePath(f, i) = path /\ f.kind[i] \in DirectoryKinds
    THEN CHOOSE i \in 1..f.n : NodePath(f, i) = path /\ f.kind[i] \in DirectoryKinds
    ELSE -1

\* the entries of a directory in the order of the file system
RECURSIVE ChildrenFrom(_, _, _)
ChildrenFrom(f, dir, i) ==
    IF i > f.n THEN <<>>
    ELSE (IF f.parent[i] = dir THEN <<[name |-> NodeNames[i], node |-> i]>> ELSE <<>>)
         \o ChildrenFrom(f, dir, i + 1)

\* the names an iteration gives before it raises, and all of them if it
\* does not
RECURSIVE BeforeFailure(_, _)
BeforeFailure(f, names) ==
    IF names = <<>> \/ f.kind[Head(names).node] = "corrupt" THEN <<>>
    ELSE <<Head(names)>> \o BeforeFailure(f, Tail(names))

\* fs_info.open_dir(path) and the iteration of the directory: the names
\* read, "." and ".." first.  It raised when the path names no directory or
\* the directory cannot be read (no name is read then), or when the
\* iteration came to an entry at which it raises
open_dir(f, path) ==
    LET dir == Resolve(f, path)
    IN IF dir = -1 \/ (dir > 0 /\ f.kind[dir] = "broken_dir")
       THEN [raised |-> TRUE, names |-> <<>>]
       ELSE [raised |-> BeforeFailure(f, ChildrenFrom(f, dir, 1)) # ChildrenFrom(f, dir, 1),
             names |-> <<[name |-> ".", node |-> dir],
                         [name |-> "..", node |-> IF dir = 0 THEN 0 ELSE f.parent[dir]]>>
                       \o BeforeFailure(f, ChildrenFrom(f, dir, 1))]

\* _create_file_entry(tsk_file, parent_path): None or <<FileEntry>>, the
\* path being f"{parent_path.rstrip('/')}/{entry.name}"
_create_file_entry(f, tsk_file, parent_path) ==
    IF tsk_file.node > 0 /\ f.kind[tsk_file.node] = "unreadable"
    THEN None
    ELSE <<[name |-> tsk_file.name,
            path |-> Append(parent_path, tsk_file.name),
            is_directory |-> tsk_file.node = 0
                             \/ f.kind[tsk_file.node] \in DirectoryKinds,
            is_deleted |-> tsk_file.node > 0
                           /\ f.kind[tsk_file.node] \in {"deleted_file", "deleted_dir"}]>>

\* the entries the loop of get_file_entries collects from the names
RECURSIVE CollectEntries(_, _, _, _)
CollectEntries(f, names, path, skipped) ==
    IF names = <<>> THEN <<>>
    ELSE (IF Head(names).name \in skipped
          THEN <<>>
          ELSE _create_file_entry(f, Head(names), path))
         \o CollectEntries(f, Tail(names), path, skipped)

\* get_file_entries without the test for "." and ".."
GetFileEntriesWithPseudo(f, open, path) ==
    IF ~open THEN <<>>
    ELSE CollectEntries(f, open_dir(f, path).names, path, {})

\* get_file_entries(path): the entries made of the names read, also when
\* the reading raised
get_file_entries(f, open, path) ==
    IF ~open THEN <<>>
    ELSE CollectEntries(f, open_dir(f, path).names, path, {".", ".."})

\* a suspended walk_directory(path): its entries and the number yielded
Frame(path, dir_entries) == [path |-> path, entries |-> dir_entries, i |-> 0]

\* the generators run until the next yield: a walk_directory whose loop is
\* over returns to the one that delegated to it
RECURSIVE RunToYield(_)
RunToYield(stack) ==
    IF stack = <<>> THEN [stack |-> <<>>, yielded |-> None]
    ELSE LET top == stack[Len(stack)]
         IN IF top.i < Len(top.entries)
            THEN [stack |-> [stack EXCEPT ![Len(stack)].i = top.i + 1],
                  yielded |-> <<top.entries[top.i + 1]>>]
            ELSE RunToYield(SubSeq(stack, 1, Len(stack) - 1))

\* Resume with the walk ended by a directory whose reading raised
ResumeAborting(f, open, stack) ==
    LET top == stack[Len(stack)]
        entry == top.entries[top.i]
        sub_path == Append(top.path, entry.name)
    IN IF entry.is_directory /\ ~entry.is_deleted
       THEN IF open_dir(f, sub_path).raised
            THEN [stack |-> <<>>, yielded |-> None]
            ELSE RunToYield(Append(stack, Frame(sub_path, get_file_entries(f, open, sub_path))))
       ELSE RunToYield(stack)

\* next() on a generator suspended at the yield of an entry: it walks the
\* entry's directory when the entry is a directory and not deleted
Resume(f, open, stack) ==
    LET top == stack[Len(stack)]
        entry == top.entries[top.i]
        sub_path == Append(top.path, entry.name)
    IN IF entry.is_directory /\ ~entry.is_deleted
       THEN RunToYield(Append(stack, Frame(sub_path, get_file_entries(f, open, sub_path))))
       ELSE RunToYield(stack)

---------------------------------------------------------------------------
(* IImageParser: PyTSKParser and MockParser *)

\* PyTSKParser.__init__ and MockParser.__init__
PyTSKParser ==
    [class |-> "PyTSKParser", img_info |-> FALSE, fs_info |-> FALSE, _ewf_handle |-> FALSE]

MockParser == [class |-> "MockParser", is_open |-> FALSE]

\* what a call gave: the parser after it and the value it returned
CallResult(p, result) == [parser |-> p, result |-> result]

\* open_image(image_path): e01 when the path ends in .e01, ok when the
\* library opens the image (for the mock, when the path exists)
open_image(p, e01, ok) ==
    IF p.class = "MockParser"
    THEN CallResult([p EXCEPT !.is_open = ok], ok)
    ELSE IF e01
    THEN IF ok
         THEN CallResult([p EXCEPT !._ewf_handle = TRUE, !.img_info = TRUE], TRUE)
         ELSE CallResult([p EXCEPT !._ewf_handle = TRUE], FALSE)
    ELSE IF ok
    THEN CallResult([p EXCEPT !.img_info = TRUE], TRUE)
    ELSE CallResult(p, FALSE)

\* get_partitions(): found is the list the image gives
get_partitions(p, found) ==
    IF p.class = "MockParser"
    THEN CallResult(p, IF ~p.is_open THEN <<>> ELSE <<"Mock Partition">>)
    ELSE CallResult(p, IF ~p.img_info THEN <<>> ELSE found)

\* open_file_system(partition_offset): ok when the library finds a file
\* system at the offset
open_file_system(p, ok) ==
    IF p.class = "MockParser"
    THEN CallResult(p, p.is_open)
    ELSE IF ~p.img_info THEN CallResult(p, FALSE)
    ELSE IF ok THEN CallResult([p EXCEPT !.fs_info = TRUE], TRUE)
    ELSE CallResult(p, FALSE)

\* the three entries MockParser.get_file_entries makes
MockEntries ==
    [i \in 1..3 |->
        [name |-> <<"MockFile", i - 1>>, path |-> <<<<"MockFile", i - 1>>>>,
         is_directory |-> FALSE, is_deleted |-> FALSE]]

\* get_file_entries("/") on a parser whose image holds the file system f
ParserFileEntries(p, f) ==
    IF p.class = "MockParser"
    THEN CallResult(p, IF ~p.is_open THEN <<>> ELSE MockEntries)
    ELSE CallResult(p, get_file_entries(f, p.fs_info, <<>>))

\* the bytes of the mock's only file
MockContent == <<77, 111, 99, 107>>

\* get_file_content(file_path): None or <<bytes>>; content is what the file
\* system gives for the path, None when the read raises
get_file_content(p, content) ==
    IF p.class = "MockParser"
    THEN CallResult(p, <<MockContent>>)
    ELSE IF ~p.fs_info THEN CallResult(p, None)
    ELSE CallResult(p, content)

\* the entries a generator gives until it is exhausted
RECURSIVE Drain(_, _, _)
Drain(f, open, run) ==
    IF run.yielded = None THEN <<>>
    ELSE run.yielded \o Drain(f, open, Resume(f, open, run.stack))

\* list(walk_file_system()) on a parser whose image holds the file system f
walk_file_system(p, f) ==
    IF p.class = "MockParser"
    THEN CallResult(p, ParserFileEntries(p, f).result)
    ELSE IF ~p.fs_info THEN CallResult(p, <<>>)
    ELSE CallResult(p, Drain(f, TRUE,
                           RunToYield(<<Frame(<<>>, get_file_entries(f, TRUE, <<>>))>>)))

\* close()
close(p) ==
    IF p.class = "MockParser"
    THEN CallResult([p EXCEPT !.is_open = FALSE], None)
    ELSE CallResult([p EXCEPT !.fs_info = FALSE, !.img_info = FALSE, !._ewf_handle = FALSE], None)

NoReply == <<"none", None>>

\* FileSystemParseThread before start() and its finished signal
NoThread == [pc |-> "none", finished |-> "none"]

\* no HashCalculationThread was made
NoHashThread == [pc |-> "none", file_entries |-> <<>>, results |-> <<>>]

\* no parser exists
ParserIdle ==
    /\ parser = None
    /\ reply = NoReply
    /\ closes = 0
    /\ parse_thread = NoThread
    /\ current_parser = FALSE
    /\ hash_thread = NoHashThread

\* no walk exists
WalkIdle ==
    /\ file_system = NoFileSystem
    /\ fs_info = FALSE
    /\ walk_stack = <<>>
    /\ yields = <<>>
    /\ wpc = "idle"

\* no hash service exists
HashIdle ==
    /\ WalkIdle
    /\ ParserIdle
    /\ disk = [p \in Paths |-> <<>>]
    /\ hash_db_path = FALSE
    /\ file_hashes = <<>>
    /\ next_id = 1
    /\ tick = 0
    /\ call = NoCall

\* the datetimes enumerated: around an epoch and one day later
Seconds == (0..MaxSecond) \cup {Day + s : s \in 0..MaxSecond}

Datetimes == {Datetime(s, us) : s \in Seconds, us \in 0..MaxMicro}

\* the values datetime.now() takes
Clock == {Datetime(s, us) : s \in 0..MaxSecond, us \in 0..MaxMicro}

FileEntries ==
    {FileEntry("/file", d, c, m, a, None) :
        d \in BOOLEAN, c \in Datetimes \cup {None},
        m \in Datetimes \cup {None}, a \in Datetimes \cup {None}}

\* no analysis is going on: the entry is FileEntry() as constructed
AnalyzerIdle ==
    /\ file_entry = FileEntry("", FALSE, None, None, None, None)
    /\ current_time = None
    /\ analysis = None
    /\ tpc = "idle"
    /\ entries = <<>>
    /\ results = None
    /\ HashIdle

---------------------------------------------------------------------------
(* The carve task *)

NoSignal == [emitted |-> FALSE, ok |-> FALSE, count |-> 0]

Init ==
    /\ file_types \in Selections
    /\ image \in Images(file_types)
    /\ kind \in {"Basic", "Smart"}
    /\ pc = "init"
    /\ carver = FALSE
    /\ stop_carving = FALSE
    /\ parser_open = FALSE
    /\ offset = 0
    /\ buffer = <<>>
    /\ chunk_len = 0
    /\ hits = <<>>
    /\ carved_files = <<>>
    /\ files = NoFiles
    /\ now = 0
    /\ returned = <<>>
    /\ finished = NoSignal
    /\ attempts = <<>>
    /\ chunks_read = 0
    /\ open_failed = FALSE
    /\ stop_requested = FALSE
    /\ AnalyzerIdle

\* FileCarverThread.run up to the call of carve_files: the carver is built
\* (BasicFileCarver.__init__).  A Basic carver is built by its caller the same way.
Run ==
    /\ pc = "init"
    /\ carver' = TRUE
    /\ carved_files' = <<>>
    /\ stop_carving' = FALSE
    /\ pc' = "call"
    /\ UNCHANGED <<tvars, hvars, wvars, stop_requested, pvars>>
    /\ UNCHANGED <<image, file_types, kind, parser_open, offset, buffer, chunk_len,
                   hits, files, now, returned, finished, attempts, chunks_read,
                   open_failed>>

\* carve_files, lines 33-48: no selected tag is in the registry
BeginNoSignatures ==
    /\ pc = "call"
    /\ Signatures(file_types) = <<>>
    /\ carved_files' = <<>>
    /\ stop_carving' = FALSE
    /\ returned' = <<>>
    /\ pc' = "returned"
    /\ UNCHANGED <<tvars, hvars, wvars, stop_requested, pvars>>
    /\ UNCHANGED <<image, file_types, kind, carver, parser_open, offset, buffer,
                   chunk_len, hits, files, now, finished, attempts, chunks_read,
                   open_failed>>

\* carve_files, lines 33-68: open_image succeeds
BeginOpened ==
    /\ pc = "call"
    /\ Signatures(file_types) # <<>>
    /\ carved_files' = <<>>
    /\ stop_carving' = FALSE
    /\ parser_open' = TRUE
    /\ offset' = 0
    /\ buffer' = <<>>
    /\ pc' = "loop"
    /\ UNCHANGED <<tvars, hvars, wvars, stop_requested, pvars>>
    /\ UNCHANGED <<image, file_types, kind, carver, chunk_len, hits, files, now,
                   returned, finished, attempts, chunks_read, open_failed>>

\* carve_files, lines 33-53 and 116-122: open_image returns False, the
\* exception raised for it is caught by carve_files itself, the parser is
\* closed and the (empty) list is returned
BeginOpenFailed ==
    /\ pc = "call"
    /\ Signatures(file_types) # <<>>
    /\ carved_files' = <<>>
    /\ stop_carving' = FALSE
    /\ open_failed' = TRUE
    /\ parser_open' = FALSE
    /\ returned' = <<>>
    /\ pc' = "returned"
    /\ UNCHANGED <<tvars, hvars, wvars, stop_requested, pvars>>
    /\ UNCHANGED <<image, file_types, kind, carver, offset, buffer, chunk_len, hits,
                   files, now, finished, attempts, chunks_read>>

\* ReadChunk with the loop test of line 70 not looking at the stop flag
ReadChunkStopIgnored ==
    /\ pc = "loop"
    /\ offset < ImageSize
    /\ LET chunk == ImgRead(offset, ChunkSize)
           buf == LastN(buffer, TailLen) \o chunk
       IN /\ chunk # <<>>
          /\ buffer' = buf
          /\ chunk_len' = Len(chunk)
          /\ hits' = HeaderHits(Signatures(file_types), buf, offset, Len(chunk))
    /\ chunks_read' = chunks_read + 1
    /\ pc' = "carve"
    /\ UNCHANGED <<tvars, hvars, wvars, stop_requested, pvars>>
    /\ UNCHANGED <<image, file_types, kind, carver, stop_carving, parser_open, offset,
                   carved_files, files, now, returned, finished, attempts,
                   open_failed>>

\* carve_files, lines 70-82: the loop test passes, a chunk is read and joined
\* to the retained tail; the header search of lines 85-107 finds its hits
ReadChunk ==
    /\ pc = "loop"
    /\ offset < ImageSize /\ ~stop_carving
    /\ LET chunk == ImgRead(offset, ChunkSize)
           buf == LastN(buffer, TailLen) \o chunk
       IN /\ chunk # <<>>
          /\ buffer' = buf
          /\ chunk_len' = Len(chunk)
          /\ hits' = HeaderHits(Signatures(file_types), buf, offset, Len(chunk))
    /\ chunks_read' = chunks_read + 1
    /\ pc' = "carve"
    /\ UNCHANGED <<tvars, hvars, wvars, stop_requested, pvars>>
    /\ UNCHANGED <<image, file_types, kind, carver, stop_carving, parser_open, offset,
                   carved_files, files, now, returned, finished, attempts,
                   open_failed>>

\* Carve with the try/except of _carve_single_file missing: the error of a
\* carve reaches the except clause of carve_files and ends the scan
CarveErrorAborts(F) ==
    /\ pc = "carve"
    /\ hits # <<>>
    /\ \E fail \in F :
          /\ fail # "none" => ErrorCount < MaxErrors
          /\ LET h == Head(hits)
                 r == CarveSingleFile(kind, FILE_SIGNATURES[h.ext], h.file_offset,
                                      ImageSize, files, now, fail)
             IN /\ carved_files' = IF r.result # <<>>
                                   THEN Append(carved_files, r.result[1])
                                   ELSE carved_files
                /\ files' = r.files
                /\ attempts' = Append(attempts,
                       [ext |-> h.ext, offset |-> h.file_offset, size |-> r.size,
                        footer_found |-> r.found_footer, error |-> r.error,
                        emitted |-> r.result # <<>>, wrote |-> r.wrote])
                /\ pc' = IF r.error THEN "returned" ELSE pc
                /\ parser_open' = IF r.error THEN FALSE ELSE parser_open
                /\ returned' = IF r.error THEN carved_files ELSE returned
    /\ hits' = Tail(hits)
    /\ UNCHANGED <<tvars, hvars, wvars, stop_requested, pvars>>
    /\ UNCHANGED <<image, file_types, kind, carver, stop_carving, offset, buffer,
                   chunk_len, now, finished, chunks_read, open_failed>>

\* carve_files, lines 96-107: the next header hit is carved; the call of
\* _carve_single_file may fail in one of the ways of F
Carve(F) ==
    /\ pc = "carve"
    /\ hits # <<>>
    /\ \E fail \in F :
          /\ fail # "none" => ErrorCount < MaxErrors
          /\ LET h == Head(hits)
                 r == CarveSingleFile(kind, FILE_SIGNATURES[h.ext], h.file_offset,
                                      ImageSize, files, now, fail)
             IN /\ carved_files' = IF r.result # <<>>
                                   THEN Append(carved_files, r.result[1])
                                   ELSE carved_files
                /\ files' = r.files
                /\ attempts' = Append(attempts,
                       [ext |-> h.ext, offset |-> h.file_offset, size |-> r.size,
                        footer_found |-> r.found_footer, error |-> r.error,
                        emitted |-> r.result # <<>>, wrote |-> r.wrote])
    /\ hits' = Tail(hits)
    /\ UNCHANGED <<tvars, hvars, wvars, stop_requested, pvars>>
    /\ UNCHANGED <<image, file_types, kind, pc, carver, stop_carving, parser_open,
                   offset, buffer, chunk_len, now, returned, finished, chunks_read,
                   open_failed>>

CarveHit == Carve(Failures)

\* the same step when no I/O error occurs
CarveHitNoFault == Carve({"none"})

\* carve_files, lines 109-114: the chunk is done
ChunkEnd ==
    /\ pc = "carve"
    /\ hits = <<>>
    /\ offset' = offset + ChunkSize
    /\ pc' = "loop"
    /\ UNCHANGED <<tvars, hvars, wvars, stop_requested, pvars>>
    /\ UNCHANGED <<image, file_types, kind, carver, stop_carving, parser_open, buffer,
                   chunk_len, hits, carved_files, files, now, returned, finished,
                   attempts, chunks_read, open_failed>>

\* carve_files, lines 70 and 119-122: the loop test fails, the parser is
\* closed and self.carved_files is returned
LoopExit ==
    /\ pc = "loop"
    /\ ~(offset < ImageSize /\ ~stop_carving)
    /\ parser_open' = FALSE
    /\ returned' = carved_files
    /\ pc' = "returned"
    /\ UNCHANGED <<tvars, hvars, wvars, stop_requested, pvars>>
    /\ UNCHANGED <<image, file_types, kind, carver, stop_carving, offset, buffer,
                   chunk_len, hits, carved_files, files, now, finished, attempts,
                   chunks_read, open_failed>>

\* FileCarverThread.run, lines 43-47: carve_files returned normally
ThreadFinished ==
    /\ pc = "returned"
    /\ finished' = IF kind = "Smart"
                   THEN [emitted |-> TRUE, ok |-> TRUE, count |-> Len(returned)]
                   ELSE finished
    /\ pc' = "done"
    /\ UNCHANGED <<tvars, hvars, wvars, stop_requested, pvars>>
    /\ UNCHANGED <<image, file_types, kind, carver, stop_carving, parser_open, offset,
                   buffer, chunk_len, hits, carved_files, files, now, returned,
                   attempts, chunks_read, open_failed>>

\* FileCarverThread.stop / BasicFileCarver.stop_carving, from another thread
Stop ==
    /\ pc # "done"
    /\ stop_carving' = IF carver THEN TRUE ELSE stop_carving
    /\ UNCHANGED <<tvars, hvars, wvars, stop_requested, pvars>>
    /\ UNCHANGED <<image, file_types, kind, pc, carver, parser_open, offset, buffer,
                   chunk_len, hits, carved_files, files, now, returned, finished,
                   attempts, chunks_read, open_failed>>

\* the chunks the scan loop reads when it is never stopped
TotalChunks == (ImageSize + ChunkSize - 1) \div ChunkSize

\* Stop, with the call noted when it comes before the last chunk was read
StopNoted ==
    /\ pc # "done"
    /\ stop_carving' = IF carver THEN TRUE ELSE stop_carving
    /\ stop_requested' = (stop_requested \/ chunks_read < TotalChunks)
    /\ UNCHANGED <<tvars, hvars, wvars, pvars>>
    /\ UNCHANGED <<image, file_types, kind, pc, carver, parser_open, offset, buffer,
                   chunk_len, hits, carved_files, files, now, returned, finished,
                   attempts, chunks_read, open_failed>>

\* a second passes during the scan
Tick ==
    /\ pc \in {"loop", "carve"}
    /\ now < MaxClock
    /\ now' = now + 1
    /\ UNCHANGED <<tvars, hvars, wvars, stop_requested, pvars>>
    /\ UNCHANGED <<image, file_types, kind, pc, carver, stop_carving, parser_open,
                   offset, buffer, chunk_len, hits, carved_files, files, returned,
                   finished, attempts, chunks_read, open_failed>>

Next ==
    \/ Run
    \/ BeginNoSignatures
    \/ BeginOpened
    \/ BeginOpenFailed
    \/ ReadChunk
    \/ CarveHit
    \/ ChunkEnd
    \/ LoopExit
    \/ ThreadFinished
    \/ Stop

\* The scan within one clock second, with I/O errors in the carves
Spec == Init /\ [][Next]_vars

NextClock ==
    \/ Run
    \/ BeginNoSignatures
    \/ BeginOpened
    \/ BeginOpenFailed
    \/ ReadChunk
    \/ CarveHitNoFault
    \/ ChunkEnd
    \/ LoopExit
    \/ ThreadFinished
    \/ Stop
    \/ Tick

\* The scan while the clock advances, without I/O errors
SpecClock == Init /\ [][NextClock]_vars

NextStop ==
    \/ Run
    \/ BeginNoSignatures
    \/ BeginOpened
    \/ BeginOpenFailed
    \/ ReadChunk
    \/ CarveHitNoFault
    \/ ChunkEnd
    \/ LoopExit
    \/ ThreadFinished
    \/ StopNoted

\* The scan with the calls of stop() noted, without I/O errors
SpecStop == Init /\ [][NextStop]_vars

---------------------------------------------------------------------------
(* The analysis of one file entry *)

\* no carve task exists
CarverIdle ==
    /\ image = <<>>
    /\ file_types = <<>>
    /\ kind = "Smart"
    /\ pc = "idle"
    /\ carver = FALSE
    /\ stop_carving = FALSE
    /\ parser_open = FALSE
    /\ offset = 0
    /\ buffer = <<>>
    /\ chunk_len = 0
    /\ hits = <<>>
    /\ carved_files = <<>>
    /\ files = NoFiles
    /\ now = 0
    /\ returned = <<>>
    /\ finished = NoSignal
    /\ attempts = <<>>
    /\ chunks_read = 0
    /\ open_failed = FALSE
    /\ stop_requested = FALSE

InitTimestamps ==
    /\ CarverIdle
    /\ HashIdle
    /\ file_entry \in FileEntries
    /\ current_time = None
    /\ analysis = None
    /\ tpc = "ready"
    /\ entries = <<>>
    /\ results = None

\* a call of analyze_timestamps(file_entry); datetime.now() is read only by
\* _check_future_timestamps, which the early return of line 47 does not reach
AnalyzeTimestamps ==
    /\ tpc = "ready"
    /\ \E t \in Clock :
          /\ current_time' = IF MissingTimestamps(file_entry) THEN None ELSE t
          /\ analysis' = analyze_timestamps(file_entry, t)
    /\ tpc' = "analyzed"
    /\ UNCHANGED <<file_entry, entries, results>>
    /\ UNCHANGED <<cvars, hvars, wvars, pvars>>

NextTimestamps == AnalyzeTimestamps

\* The analysis of one entry at some time of the clock
SpecTimestamps == InitTimestamps /\ [][NextTimestamps]_vars

---------------------------------------------------------------------------
(* The analysis of a listing *)

InitDirectory ==
    /\ CarverIdle
    /\ HashIdle
    /\ file_entry = FileEntry("", FALSE, None, None, None, None)
    /\ current_time = None
    /\ analysis = None
    /\ tpc = "listed"
    /\ \E n \in 0..MaxEntries :
          \E k \in [1..n -> EntryKinds] : entries = EntryList(k)
    /\ results = None

\* a call of analyze_directory(entries)
AnalyzeDirectory ==
    /\ tpc = "listed"
    /\ \E clock \in DirectoryClocks(entries) :
          results' = analyze_directory(entries, clock)
    /\ tpc' = "reported"
    /\ UNCHANGED <<file_entry, current_time, analysis, entries>>
    /\ UNCHANGED <<cvars, hvars, wvars, pvars>>

NextDirectory == AnalyzeDirectory

\* The analysis of one listing while the clock advances
SpecDirectory == InitDirectory /\ [][NextDirectory]_vars

---------------------------------------------------------------------------
(* The analysis of entries built from file-system metadata *)

\* the longest list of entries built from metadata
MaxWalked == 1

\* the values of meta.crtime, meta.mtime and meta.atime, in whole seconds:
\* 0 when the file system holds no time
RawTimes == {0, 1, 2, Day + 2}

\* datetime.fromtimestamp(seconds) with a datetime that keeps a fraction
FromTimestampFractional(seconds) == Datetime(seconds, 1)

\* datetime.fromtimestamp(seconds) of an integer
fromtimestamp(seconds) == Datetime(seconds, 0)

\* the metadata of a file as the file system holds it
Metas ==
    [is_directory : BOOLEAN, crtime : RawTimes, mtime : RawTimes, atime : RawTimes]

\* _create_file_entry, lines 196-209: the FileEntry of an entry with metadata;
\* a time attribute is set only when the raw value is not zero
FileEntryOfMeta(path, meta) ==
    FileEntry(path, meta.is_directory,
              IF meta.crtime # 0 THEN fromtimestamp(meta.crtime) ELSE None,
              IF meta.mtime # 0 THEN fromtimestamp(meta.mtime) ELSE None,
              IF meta.atime # 0 THEN fromtimestamp(meta.atime) ELSE None,
              None)

\* the entries of a walk, built from metadata; the path of the i-th is i
InitMetadata ==
    /\ CarverIdle
    /\ HashIdle
    /\ file_entry = FileEntry("", FALSE, None, None, None, None)
    /\ current_time = None
    /\ analysis = None
    /\ tpc = "listed"
    /\ \E n \in 0..MaxWalked :
          \E metas \in [1..n -> Metas] :
             entries = [i \in 1..n |-> FileEntryOfMeta(i, metas[i])]
    /\ results = None

\* The analysis of the entries a walk of the file system gave
SpecMetadata == InitMetadata /\ [][NextDirectory]_vars

---------------------------------------------------------------------------
(* The calls of the hash service *)

AnalyzerAndCarverIdle ==
    /\ CarverIdle
    /\ file_entry = FileEntry("", FALSE, None, None, None, None)
    /\ current_time = None
    /\ analysis = None
    /\ tpc = "idle"
    /\ entries = <<>>
    /\ results = None

\* HashVerifier.__init__ with or without case_path, on a disk of files
InitHashes ==
    /\ AnalyzerAndCarverIdle
    /\ WalkIdle
    /\ ParserIdle
    /\ disk \in [Paths -> {<<>>} \cup {<<c>> : c \in Contents}]
    /\ hash_db_path \in BOOLEAN
    /\ file_hashes = <<>>
    /\ next_id = 1
    /\ tick = 0
    /\ call = NoCall

\* a call of calculate_file_hash(file_path, algorithms)
CalculateFileHash ==
    /\ call = NoCall
    /\ \E file_path \in Paths, algorithms \in AlgorithmLists, fails \in BOOLEAN :
          call' = [op |-> "calculate_file_hash", file_path |-> file_path,
                   algorithms |-> algorithms, fails |-> fails,
                   result |-> calculate_file_hash(disk, file_path, algorithms, fails)]
    /\ UNCHANGED <<disk, hash_db_path, file_hashes, next_id, tick>>
    /\ UNCHANGED <<cvars, tvars, wvars, pvars>>

\* a call of calculate_data_hash(data, algorithms)
CalculateDataHash ==
    /\ call = NoCall
    /\ \E data \in Contents, algorithms \in AlgorithmLists :
          call' = [op |-> "calculate_data_hash", data |-> data,
                   algorithms |-> algorithms,
                   result |-> calculate_data_hash(data, algorithms)]
    /\ UNCHANGED <<disk, hash_db_path, file_hashes, next_id, tick>>
    /\ UNCHANGED <<cvars, tvars, wvars, pvars>>

\* a call of verify_file_integrity(file_path, expected_hashes) with a dict
\* over at most MaxAlgorithms names
VerifyIntegrity ==
    /\ call = NoCall
    /\ \E file_path \in Paths, fails \in BOOLEAN :
          \E names \in {n \in SUBSET AlgorithmNames : Cardinality(n) <= MaxAlgorithms} :
             \E kinds \in [names -> DigestKinds] :
                LET expected_hashes ==
                       [alg \in names |->
                          ExpectedDigest(disk, file_path, alg, kinds[alg])]
                IN call' = [op |-> "verify_file_integrity", file_path |-> file_path,
                            expected_hashes |-> expected_hashes, fails |-> fails,
                            result |-> verify_file_integrity(disk, file_path,
                                                             expected_hashes, fails)]
    /\ UNCHANGED <<disk, hash_db_path, file_hashes, next_id, tick>>
    /\ UNCHANGED <<cvars, tvars, wvars, pvars>>

\* a call of batch_calculate_hashes(file_paths, algorithms)
BatchCalculateHashes ==
    /\ call = NoCall
    /\ \E file_paths \in PathLists, algorithms \in BatchAlgorithms, advance \in BOOLEAN :
          \E read_fails \in SUBSET DOMAIN file_paths, store_fails \in SUBSET DOMAIN file_paths :
             LET batch == batch_calculate_hashes(hash_db_path, file_hashes, next_id, disk,
                                                 tick, file_paths, algorithms,
                                                 read_fails, store_fails, advance)
             IN /\ file_hashes' = batch.table
                /\ next_id' = batch.next_id
                /\ tick' = batch.t
                /\ call' = [op |-> "batch_calculate_hashes", file_paths |-> file_paths,
                            algorithms |-> algorithms, read_fails |-> read_fails,
                            store_fails |-> store_fails, raised |-> batch.raised,
                            result |-> batch.results]
    /\ UNCHANGED <<disk, hash_db_path>>
    /\ UNCHANGED <<cvars, tvars, wvars, pvars>>

NextHashes ==
    \/ CalculateFileHash
    \/ CalculateDataHash
    \/ VerifyIntegrity
    \/ BatchCalculateHashes

\* One call that hashes or verifies files of a disk, on a new HashVerifier
SpecHashes == InitHashes /\ [][NextHashes]_vars

---------------------------------------------------------------------------
(* The store of a case *)

\* HashVerifier.__init__ with or without case_path: the table is empty
InitStore ==
    /\ AnalyzerAndCarverIdle
    /\ WalkIdle
    /\ ParserIdle
    /\ disk \in StoreDisks
    /\ hash_db_path \in BOOLEAN
    /\ file_hashes = <<>>
    /\ next_id = 1
    /\ tick = 0
    /\ call = NoCall

\* a call of store_file_hash(file_path, hashes, source_type)
StoreFileHash ==
    /\ next_id <= MaxRecords
    /\ \E file_path \in Paths, hashes \in StoreHashes, source_type \in SourceTypes,
          fails \in BOOLEAN :
          LET stored == store_file_hash(hash_db_path, file_hashes, next_id, disk, tick,
                                        file_path, hashes, source_type, fails)
          IN /\ file_hashes' = stored.table
             /\ next_id' = stored.next_id
             /\ call' = [op |-> "store_file_hash", file_path |-> file_path,
                         hashes |-> hashes, source_type |-> source_type,
                         fails |-> fails, result |-> stored.returned]
    /\ UNCHANGED <<disk, hash_db_path, tick>>
    /\ UNCHANGED <<cvars, tvars, wvars, pvars>>

\* a call of export_hash_report(output_path, format)
ExportHashReport ==
    /\ \E format \in Formats, fails \in BOOLEAN :
          \E rows \in SelectOrderByCalculatedAt(file_hashes) :
             call' = [op |-> "export_hash_report", format |-> format, fails |-> fails,
                      rows |-> rows,
                      result |-> export_hash_report(hash_db_path, rows, format, fails)]
    /\ UNCHANGED <<disk, hash_db_path, file_hashes, next_id, tick>>
    /\ UNCHANGED <<cvars, tvars, wvars, pvars>>

\* the clock of the store advances
TickStore ==
    /\ tick < MaxTick
    /\ tick' = tick + 1
    /\ UNCHANGED <<disk, hash_db_path, file_hashes, next_id, call>>
    /\ UNCHANGED <<cvars, tvars, wvars, pvars>>

NextStore ==
    \/ StoreFileHash
    \/ TickStore

\* Stores on the store of a case, as the clock advances
SpecStore == InitStore /\ [][NextStore]_vars

NextExport ==
    \/ StoreFileHash
    \/ TickStore
    \/ ExportHashReport

\* Stores on the store of a case and exports of it, as the clock advances
SpecExport == InitStore /\ [][NextExport]_vars

---------------------------------------------------------------------------
(* The walk of a file system *)

\* no parser has opened a file system yet
InitWalk ==
    /\ AnalyzerAndCarverIdle
    /\ disk = [p \in Paths |-> <<>>]
    /\ hash_db_path = FALSE
    /\ file_hashes = <<>>
    /\ next_id = 1
    /\ tick = 0
    /\ call = NoCall
    /\ WalkIdle
    /\ ParserIdle

\* open_file_system on an image: it sets fs_info or fails; a consumer is
\* then about to iterate walk_file_system()
OpenFileSystem ==
    /\ wpc = "idle"
    /\ fs_info' \in BOOLEAN
    /\ wpc' = "opened"
    /\ UNCHANGED <<file_system, walk_stack, yields>>
    /\ UNCHANGED <<cvars, tvars, hvars, pvars>>

\* the first next() on walk_file_system(): it returns at once without
\* fs_info, and else reads the root directory and runs walk_directory("/")
\* to its first yield
WalkStart ==
    /\ wpc = "opened"
    /\ \E kinds \in IF fs_info THEN Listings(MaxNodes) ELSE {<<>>} :
          /\ file_system' = ReadDirectory(file_system, 0, kinds)
          /\ \E run \in {IF ~fs_info
                          THEN [stack |-> <<>>, yielded |-> None]
                          ELSE RunToYield(<<Frame(<<>>,
                                  get_file_entries(file_system', fs_info, <<>>))>>)} :
                /\ walk_stack' = run.stack
                /\ yields' = yields \o run.yielded
                /\ wpc' = IF run.yielded = None THEN "done" ELSE "walking"
    /\ UNCHANGED fs_info
    /\ UNCHANGED <<cvars, tvars, hvars, pvars>>

\* a later next(): the walk goes on to the next yield, or is exhausted.  What
\* the directory yielded last holds becomes known here, when the walk
\* descends into it and also when it passes it by because it is deleted
WalkNext ==
    /\ wpc = "walking"
    /\ LET top == walk_stack[Len(walk_stack)]
           entry == top.entries[top.i]
           dir == Resolve(file_system, Append(top.path, entry.name))
           read == /\ entry.is_directory
                   /\ dir > 0 /\ file_system.kind[dir] \in {"dir", "deleted_dir"}
       IN \E kinds \in IF read THEN Listings(MaxNodes - file_system.n) ELSE {<<>>} :
             /\ file_system' = ReadDirectory(file_system, dir, kinds)
             /\ \E run \in {Resume(file_system', fs_info, walk_stack)} :
                   /\ walk_stack' = run.stack
                   /\ yields' = yields \o run.yielded
                   /\ wpc' = IF run.yielded = None THEN "done" ELSE "walking"
    /\ UNCHANGED fs_info
    /\ UNCHANGED <<cvars, tvars, hvars, pvars>>

NextWalk ==
    \/ OpenFileSystem
    \/ WalkStart
    \/ WalkNext

\* A file system is opened and a consumer iterates walk_file_system()
SpecWalk == InitWalk /\ [][NextWalk]_vars

\* A consumer that iterates until the generator is exhausted
SpecWalkLive == SpecWalk /\ WF_vars(NextWalk)

---------------------------------------------------------------------------
(* The calls of a parser *)

\* the cap of the number of calls of close() in a row
MaxCloses == 3

\* the file system of the image the parser is used on
SampleFileSystem == FileSystem(2, <<0, 1>>, <<"dir", "file">>)

OthersIdle ==
    /\ AnalyzerAndCarverIdle
    /\ disk = [p \in Paths |-> <<>>]
    /\ hash_db_path = FALSE
    /\ file_hashes = <<>>
    /\ next_id = 1
    /\ tick = 0
    /\ call = NoCall
    /\ WalkIdle

\* a parser of either class was built and nothing was called on it
InitParser ==
    /\ OthersIdle
    /\ parser \in {PyTSKParser, MockParser}
    /\ reply = NoReply
    /\ closes = 0
    /\ parse_thread = NoThread
    /\ current_parser = FALSE
    /\ hash_thread = NoHashThread

\* a call and the value it returned
Reply(op, result) == <<op, result>>

CallOpenImage ==
    /\ parser # None
    /\ \E e01, ok \in BOOLEAN :
          /\ parser' = open_image(parser, e01, ok).parser
          /\ reply' = Reply("open_image", open_image(parser, e01, ok).result)
    /\ closes' = 0
    /\ UNCHANGED <<parse_thread, current_parser, hash_thread>>
    /\ UNCHANGED <<cvars, tvars, hvars, wvars>>

CallGetPartitions ==
    /\ parser # None
    /\ \E found \in {<<>>, <<"Whole Disk">>, <<"NTFS", "FAT32">>} :
          /\ parser' = get_partitions(parser, found).parser
          /\ reply' = Reply("get_partitions", get_partitions(parser, found).result)
    /\ UNCHANGED <<closes, parse_thread, current_parser, hash_thread>>
    /\ UNCHANGED <<cvars, tvars, hvars, wvars>>

CallOpenFileSystem ==
    /\ parser # None
    /\ \E ok \in BOOLEAN :
          /\ parser' = open_file_system(parser, ok).parser
          /\ reply' = Reply("open_file_system", open_file_system(parser, ok).result)
    /\ UNCHANGED <<closes, parse_thread, current_parser, hash_thread>>
    /\ UNCHANGED <<cvars, tvars, hvars, wvars>>

CallGetFileEntries ==
    /\ parser # None
    /\ parser' = ParserFileEntries(parser, SampleFileSystem).parser
    /\ reply' = Reply("get_file_entries", ParserFileEntries(parser, SampleFileSystem).result)
    /\ UNCHANGED <<closes, parse_thread, current_parser, hash_thread>>
    /\ UNCHANGED <<cvars, tvars, hvars, wvars>>

\* get_file_content of a path whose read raises, of an empty file, of a file
CallGetFileContent ==
    /\ parser # None
    /\ \E content \in {None, <<<<>>>>, <<MockContent>>} :
          /\ parser' = get_file_content(parser, content).parser
          /\ reply' = Reply("get_file_content", get_file_content(parser, content).result)
    /\ UNCHANGED <<closes, parse_thread, current_parser, hash_thread>>
    /\ UNCHANGED <<cvars, tvars, hvars, wvars>>

CallWalkFileSystem ==
    /\ parser # None
    /\ parser' = walk_file_system(parser, SampleFileSystem).parser
    /\ reply' = Reply("walk_file_system", walk_file_system(parser, SampleFileSystem).result)
    /\ UNCHANGED <<closes, parse_thread, current_parser, hash_thread>>
    /\ UNCHANGED <<cvars, tvars, hvars, wvars>>

CallClose ==
    /\ parser # None
    /\ closes < MaxCloses
    /\ parser' = close(parser).parser
    /\ reply' = Reply("close", close(parser).result)
    /\ closes' = closes + 1
    /\ UNCHANGED <<parse_thread, current_parser, hash_thread>>
    /\ UNCHANGED <<cvars, tvars, hvars, wvars>>

NextParser ==
    \/ CallOpenImage
    \/ CallGetPartitions
    \/ CallOpenFileSystem
    \/ CallGetFileEntries
    \/ CallGetFileContent
    \/ CallWalkFileSystem
    \/ CallClose

\* Any sequence of calls on one parser
SpecParser == InitParser /\ [][NextParser]_vars

---------------------------------------------------------------------------
(* The file-system viewer: parsing, then hashing of the selected files *)

\* the cap of the number of files selected for hashing
MaxSelected == 2

\* a selected entry: its path and what the file system gives for it (None
\* when reading it raises)
HashEntries ==
    {[path |-> "readable", content |-> <<MockContent>>],
     [path |-> "damaged", content |-> None]}

HashEntryLists == UNION {[1..k -> HashEntries] : k \in 1..MaxSelected}

\* start_parsing: the parse thread was started; run() gets its parser
InitViewer ==
    /\ OthersIdle
    /\ parser \in {PyTSKParser, MockParser}
    /\ reply = NoReply
    /\ closes = 0
    /\ parse_thread = [pc |-> "started", finished |-> "none"]
    /\ current_parser = FALSE
    /\ hash_thread = NoHashThread

\* FileSystemParseThread.run, lines 38-80: the image and the file system are
\* opened and walked, and finished is emitted
ParseRun ==
    /\ parse_thread.pc = "started"
    /\ \E e01, image_ok, fs_ok \in BOOLEAN :
          LET opened == open_image(parser, e01, image_ok)
              mounted == open_file_system(opened.parser, fs_ok)
          IN /\ parser' = IF opened.result THEN mounted.parser ELSE opened.parser
             /\ parse_thread' = [pc |-> "emitted",
                                 finished |-> IF opened.result /\ mounted.result
                                              THEN "success" ELSE "failure"]
    /\ closes' = 0
    /\ UNCHANGED <<reply, current_parser, hash_thread>>
    /\ UNCHANGED <<cvars, tvars, hvars, wvars>>

\* FileSystemParseThread.run, lines 82-84: finally, the parser is closed
ParseFinally ==
    /\ parse_thread.pc = "emitted"
    /\ parser' = close(parser).parser
    /\ closes' = closes + 1
    /\ parse_thread' = [parse_thread EXCEPT !.pc = "finished"]
    /\ UNCHANGED <<reply, current_parser, hash_thread>>
    /\ UNCHANGED <<cvars, tvars, hvars, wvars>>

\* FileSystemViewerWidget.parsing_finished, the slot of the finished signal
\* in the GUI thread: after a success the thread's parser is kept
ParsingFinished ==
    /\ parse_thread.finished \in {"success", "failure"}
    /\ current_parser' = IF parse_thread.finished = "success" THEN TRUE ELSE current_parser
    /\ parse_thread' = [parse_thread EXCEPT !.finished = "handled"]
    /\ UNCHANGED <<parser, reply, closes, hash_thread>>
    /\ UNCHANGED <<cvars, tvars, hvars, wvars>>

\* batch hashing of the selected files, start_hash_calculation: the thread
\* is given current_parser
StartHashCalculation ==
    /\ current_parser
    /\ hash_thread.pc = "none"
    /\ \E file_entries \in HashEntryLists :
          hash_thread' = [pc |-> "running", file_entries |-> file_entries, results |-> <<>>]
    /\ UNCHANGED <<parser, reply, closes, parse_thread, current_parser>>
    /\ UNCHANGED <<cvars, tvars, hvars, wvars>>

\* HashCalculationThread.run, lines 113-131: one turn of the loop
HashNextFile ==
    /\ hash_thread.pc = "running"
    /\ Len(hash_thread.results) < Len(hash_thread.file_entries)
    /\ LET entry == hash_thread.file_entries[Len(hash_thread.results) + 1]
           file_content == get_file_content(parser, entry.content)
       IN /\ parser' = file_content.parser
          /\ reply' = Reply("get_file_content", file_content.result)
          /\ hash_thread' =
                [hash_thread EXCEPT !.results =
                    Append(@, [path |-> entry.path,
                               error |-> file_content.result = None])]
    /\ UNCHANGED <<closes, parse_thread, current_parser>>
    /\ UNCHANGED <<cvars, tvars, hvars, wvars>>

\* HashCalculationThread.run, line 133: finished is emitted with the results
HashFinished ==
    /\ hash_thread.pc = "running"
    /\ Len(hash_thread.results) = Len(hash_thread.file_entries)
    /\ hash_thread' = [hash_thread EXCEPT !.pc = "finished"]
    /\ UNCHANGED <<parser, reply, closes, parse_thread, current_parser>>
    /\ UNCHANGED <<cvars, tvars, hvars, wvars>>

NextViewer ==
    \/ ParseRun
    \/ ParseFinally
    \/ ParsingFinished
    \/ StartHashCalculation
    \/ HashNextFile
    \/ HashFinished

\* An image is parsed in the viewer and selected files are hashed
SpecViewer == InitViewer /\ [][NextViewer]_vars

---------------------------------------------------------------------------
(* Vocabulary of the properties *)

\* the 0-based positions at which pat occurs in s
Occurrences(s, pat) ==
    {p \in 0..(Len(s) - Len(pat)) : SubSeq(s, p + 1, p + Len(pat)) = pat}

\* the occurrence of n bytes at p begins in one scan chunk and ends in the next
Spans(p, n) == (p \div ChunkSize) # ((p + n - 1) \div ChunkSize)

\* the selected signatures that have a header
Searched == {ext \in Tags : /\ \E i \in DOMAIN Signatures(file_types) :
                                  Signatures(file_types)[i] = ext
                            /\ FILE_SIGNATURES[ext].header # <<>>}

AttemptsAt(ext, p) ==
    {i \in DOMAIN attempts : attempts[i].ext = ext /\ attempts[i].offset = p}

RecordsAt(ext, p) ==
    {i \in DOMAIN carved_files :
        carved_files[i].type = ext /\ carved_files[i].offset = p}

\* carve_files has returned after its loop ran
Returned == pc \in {"returned", "done"} /\ ~open_failed /\ Signatures(file_types) # <<>>

\* ... and the loop ended because the image was exhausted
ScanComplete == Returned /\ offset >= ImageSize

NoCarveError == \A i \in DOMAIN attempts : ~attempts[i].error

\* the bytes a carve at p may read: up to the size cap or the image end
Window(ext, p) ==
    SubSeq(image, p + 1, Min(p + FILE_SIGNATURES[ext].max_size, Len(image)))

LeastOf(S) == CHOOSE x \in S : \A y \in S : x <= y

---------------------------------------------------------------------------
(* C1: a header that begins in one scan chunk and ends in the next is      *)
(* carved exactly once in a scan that runs to the end of the image, and    *)
(* every carve attempt and every record carries the absolute image offset  *)
(* of the first byte of a header occurrence.                               *)
C1_SpanningHeaderOnce ==
    /\ \A i \in DOMAIN attempts :
          attempts[i].offset \in
              Occurrences(image, FILE_SIGNATURES[attempts[i].ext].header)
    /\ \A i \in DOMAIN carved_files :
          /\ carved_files[i].offset \in
                Occurrences(image, FILE_SIGNATURES[carved_files[i].type].header)
          /\ AttemptsAt(carved_files[i].type, carved_files[i].offset) # {}
    /\ ScanComplete =>
          \A ext \in Searched :
             \A p \in Occurrences(image, FILE_SIGNATURES[ext].header) :
                Spans(p, Len(FILE_SIGNATURES[ext].header)) =>
                   Cardinality(AttemptsAt(ext, p)) = 1

\* a scan has ended in which a header lying across a chunk boundary was carved
\* into a record
C1_Witness ==
    /\ ScanComplete
    /\ \E i \in DOMAIN carved_files :
          /\ Spans(carved_files[i].offset,
                   Len(FILE_SIGNATURES[carved_files[i].type].header))
          /\ carved_files[i].offset > 0

---------------------------------------------------------------------------
(* C2: when the footer occurs in the bytes a carve may read (before the    *)
(* size cap and the image end) the carve stops at its first occurrence:    *)
(* footer_found is true, the size is footer position + footer length, and  *)
(* the carved bytes are the image bytes from the hit up to and including   *)
(* the footer.                                                             *)
C2_StopsAtFirstFooter ==
    /\ \A i \in DOMAIN attempts :
          LET a == attempts[i]
              footer == FILE_SIGNATURES[a.ext].footer
              occ == Occurrences(Window(a.ext, a.offset), footer)
          IN (footer # <<>> /\ occ # {} /\ a.size >= 0) =>
                /\ a.footer_found
                /\ a.size = LeastOf(occ) + Len(footer)
    /\ \A i \in DOMAIN carved_files :
          LET r == carved_files[i]
              footer == FILE_SIGNATURES[r.type].footer
              occ == Occurrences(Window(r.type, r.offset), footer)
          IN (footer # <<>> /\ occ # {}) =>
                /\ r.footer_found
                /\ r.size = LeastOf(occ) + Len(footer)
                /\ r.hash_md5 = SubSeq(image, r.offset + 1, r.offset + r.size)

\* the example of the specification at the model's scale: a JPEG header, a
\* run of zero bytes and the footer give one jpg record that ends with the footer
C2_Witness ==
    /\ file_types = <<"jpg">>
    /\ StartsWith(image, FILE_SIGNATURES["jpg"].header \o Filler
                         \o FILE_SIGNATURES["jpg"].footer)
    /\ ScanComplete
    /\ Len(carved_files) = 1
    /\ carved_files[1].type = "jpg"
    /\ carved_files[1].footer_found
    /\ carved_files[1].size = Len(FILE_SIGNATURES["jpg"].header) + Len(Filler)
                              + Len(FILE_SIGNATURES["jpg"].footer)

---------------------------------------------------------------------------
(* C3: no record is smaller than the minimum size, and a candidate whose   *)
(* accumulated bytes are fewer (cut short by an early footer or by the     *)
(* image end) gives neither a record nor an output file.                   *)
C3_MinimumSize ==
    /\ \A i \in DOMAIN carved_files :
          /\ carved_files[i].size >= MinSize
          /\ Len(carved_files[i].hash_md5) = carved_files[i].size
    /\ \A i \in DOMAIN attempts :
          attempts[i].size < MinSize =>
             ~attempts[i].emitted /\ ~attempts[i].wrote
    /\ Len(carved_files) =
          Cardinality({i \in DOMAIN attempts : attempts[i].emitted})
    /\ \A path \in DOMAIN files :
          \E i \in DOMAIN attempts :
             attempts[i].size >= MinSize /\ attempts[i].ext = path.extension

\* one candidate was cut short by an early footer and one by the image end,
\* and neither left a record or a file
C3_Witness ==
    /\ ScanComplete
    /\ \E i \in DOMAIN attempts :
          /\ attempts[i].footer_found
          /\ attempts[i].size \in 0..(MinSize - 1)
    /\ \E i \in DOMAIN attempts :
          /\ ~attempts[i].footer_found
          /\ attempts[i].size \in 0..(MinSize - 1)
          /\ attempts[i].offset + attempts[i].size = ImageSize
    /\ carved_files = <<>>
    /\ files = NoFiles

---------------------------------------------------------------------------
\* the signatures with a footer
WithFooter == {ext \in Tags : FILE_SIGNATURES[ext].footer # <<>>}

\* attempt a read at least the minimum size, met no I/O error and no footer
Unterminated(a) ==
    a.ext \in WithFooter /\ ~a.footer_found /\ a.size >= MinSize /\ ~a.error

EmittedUnterminated(a) ==
    /\ a.emitted
    /\ \E j \in RecordsAt(a.ext, a.offset) :
          ~carved_files[j].footer_found /\ carved_files[j].size = a.size

(* C4 as claimed: with either carver, a header hit of a signature with a   *)
(* footer whose footer is not found before the cap or the image end, and   *)
(* whose bytes reach the minimum size, is emitted with footer_found false. *)
C4_AsClaimed ==
    \A i \in DOMAIN attempts :
       Unterminated(attempts[i]) => EmittedUnterminated(attempts[i])

(* C4 as amended: this holds for the Basic carver with every signature     *)
(* that has a footer and for the Smart carver with png, gif, pdf and zip;  *)
(* the Smart carver discards a jpg candidate whose footer was not found,   *)
(* record and file, because it does not end with the EOI marker.           *)
C4_UnterminatedEmitted ==
    \A i \in DOMAIN attempts :
       Unterminated(attempts[i]) =>
          IF kind = "Smart" /\ attempts[i].ext = "jpg"
          THEN ~attempts[i].emitted /\ ~attempts[i].wrote
               /\ RecordsAt("jpg", attempts[i].offset) = {}
          ELSE EmittedUnterminated(attempts[i])

\* the Smart carver emitted a carve that ran into the size cap without its footer
C4_Witness ==
    /\ kind = "Smart"
    /\ \E i \in DOMAIN carved_files :
          /\ carved_files[i].type \in WithFooter
          /\ ~carved_files[i].footer_found
          /\ carved_files[i].size = FILE_SIGNATURES[carved_files[i].type].max_size
          /\ carved_files[i].offset + carved_files[i].size < ImageSize

---------------------------------------------------------------------------
\* the scan of tag over an image that is the tag's header followed by zero
\* bytes up to at least the minimum size has ended without an I/O error
HeaderThenFiller(tag) ==
    /\ file_types = <<tag>>
    /\ Len(image) >= MinSize
    /\ Len(image) >= Len(FILE_SIGNATURES[tag].header)
    /\ image = FILE_SIGNATURES[tag].header
               \o Zeros(Len(image) - Len(FILE_SIGNATURES[tag].header))
    /\ ScanComplete
    /\ NoCarveError

(* C5 as claimed: for every tag of the registry, the scan for that tag of  *)
(* an image made of the tag's header and filler up to the minimum size     *)
(* gives exactly one record, of that type.                                 *)
C5_AsClaimed ==
    \A tag \in Tags :
       HeaderThenFiller(tag) =>
          Len(carved_files) = 1 /\ carved_files[1].type = tag

(* C5 as amended: this holds for every tag that has a header (all but txt) *)
(* with the Basic carver, and with the Smart carver for all of them but    *)
(* jpg; the scan for txt, which has no header, gives no record, and the    *)
(* Smart carver gives none for jpg, whose candidate has no EOI marker.     *)
C5_OneRecordPerHeader ==
    \A tag \in Tags :
       HeaderThenFiller(tag) =>
          IF FILE_SIGNATURES[tag].header = <<>> \/ (kind = "Smart" /\ tag = "jpg")
          THEN carved_files = <<>>
          ELSE /\ Len(carved_files) = 1
               /\ carved_files[1].type = tag
               /\ carved_files[1].offset = 0

\* such a scan of an image of several chunks has ended with its one record
C5_Witness ==
    /\ \E tag \in Tags : HeaderThenFiller(tag)
    /\ ImageSize > ChunkSize
    /\ Len(carved_files) = 1

---------------------------------------------------------------------------
(* C6: an occurrence of an alternative header of a selected signature is   *)
(* searched for, carved and typed as that signature, also when it is not   *)
(* an occurrence of the primary header (GIF89a).                           *)
C6_AlternativeHeadersSearched ==
    ScanComplete =>
       \A ext \in Searched :
          \A alt \in AlternativesOf(ext) :
             \A p \in Occurrences(image, alt) : AttemptsAt(ext, p) # {}

---------------------------------------------------------------------------
IsPrefix(s, t) == Len(s) <= Len(t) /\ SubSeq(t, 1, Len(s)) = s

\* a step of the scan taken while the stop flag is set
C7_Step ==
    (pc \in {"loop", "carve"} /\ stop_carving) =>
       /\ chunks_read' = chunks_read
       /\ offset' = offset \/ (pc = "carve" /\ hits = <<>>)
       /\ IsPrefix(carved_files, carved_files')
       /\ (pc = "carve" /\ hits # <<>>) =>
             /\ pc' = "carve"
             /\ hits' = Tail(hits)
             /\ Len(attempts') = Len(attempts) + 1
       /\ (pc = "carve" /\ hits = <<>>) => pc' = "loop"
       /\ pc = "loop" =>
             /\ pc' = "returned"
             /\ returned' = carved_files
             /\ ~parser_open'

C7_AtReturn ==
    (pc \in {"returned", "done"} /\ Signatures(file_types) # <<>>) =>
       /\ ~parser_open
       /\ returned = carved_files
       /\ hits = <<>>

(* C7: once the stop flag is set inside the scan loop, the carves of the   *)
(* chunk being processed run to completion, no further chunk is read, the  *)
(* parser is closed and carve_files returns the records appended so far.   *)
C7_StopAtChunkBoundary == []C7_AtReturn /\ [][C7_Step]_vars

\* a stopped scan returned its records while chunks of the image were unread
C7_Witness ==
    /\ pc = "returned"
    /\ stop_carving
    /\ offset < ImageSize
    /\ Len(attempts) >= 2
    /\ returned # <<>>
    /\ ~parser_open

---------------------------------------------------------------------------
(* C8: when open_image fails no chunk is read, no record is produced and   *)
(* the carve task ends with finished(False, message), never with success.  *)
C8_OpenFailureReported ==
    open_failed =>
       /\ chunks_read = 0
       /\ carved_files = <<>>
       /\ attempts = <<>>
       /\ (pc = "done" /\ kind = "Smart") => (finished.emitted /\ ~finished.ok)

---------------------------------------------------------------------------
\* the step is a call of _carve_single_file that met an I/O error
C9_ErrorStep ==
    /\ Len(attempts') = Len(attempts) + 1
    /\ attempts'[Len(attempts')].error

C9_Step ==
    C9_ErrorStep =>
       /\ carved_files' = carved_files
       /\ pc' = "carve"
       /\ hits' = Tail(hits)
       /\ parser_open'
       /\ offset' = offset

C9_AtReturn ==
    (Returned /\ ~stop_carving) =>
       /\ offset >= ImageSize
       /\ chunks_read = (ImageSize + ChunkSize - 1) \div ChunkSize
       /\ \A ext \in Searched :
             \A p \in Occurrences(image, FILE_SIGNATURES[ext].header) :
                AttemptsAt(ext, p) # {}

(* C9: an error while reading or writing for one header hit gives no       *)
(* record for that hit only: the records already made are unchanged, the   *)
(* error stays inside _carve_single_file, and the scan goes on with the    *)
(* remaining hits and the following chunks.                                *)
C9_CarveErrorIsLocal == []C9_AtReturn /\ [][C9_Step]_vars

\* a scan ran to the end of the image although one of its carves failed
\* between two that gave records
C9_Witness ==
    /\ ScanComplete
    /\ \E i, j, k \in DOMAIN attempts :
          /\ i < j /\ j < k
          /\ attempts[i].emitted
          /\ attempts[j].error
          /\ attempts[k].emitted
    /\ Len(returned) >= 2

---------------------------------------------------------------------------
\* the analysis of an entry with its three timestamps has returned
AnalyzedAllPresent == tpc = "analyzed" /\ ~MissingTimestamps(file_entry)

Reported(type, severity) ==
    \E i \in DOMAIN analysis.anomalies :
       analysis.anomalies[i].type = type /\ analysis.anomalies[i].severity = severity

(* C10: for an entry with its three timestamps, the anomaly list has       *)
(* identical_timestamps (high) iff the three are equal to the second,      *)
(* illogical_order (medium) iff created > modified, zero_precision         *)
(* (medium) iff the three have zero microseconds, future_timestamp (high)  *)
(* iff one of them is more than a day after the current time, and no       *)
(* other anomaly, each at most once.                                       *)
C10_AnomaliesIffConditions ==
    AnalyzedAllPresent =>
       LET c == file_entry.created_time
           m == file_entry.modified_time
           a == file_entry.accessed_time
           anomalies == analysis.anomalies
       IN /\ Reported("identical_timestamps", "high")
                <=> (Second(c) = Second(m) /\ Second(m) = Second(a))
          /\ Reported("illogical_order", "medium") <=> After(c, m)
          /\ Reported("zero_precision", "medium")
                <=> (Microsecond(c) = 0 /\ Microsecond(m) = 0 /\ Microsecond(a) = 0)
          /\ Reported("future_timestamp", "high")
                <=> \E ts \in {c, m, a} :
                       \/ Second(ts) > Second(current_time) + Day
                       \/ /\ Second(ts) = Second(current_time) + Day
                          /\ Microsecond(ts) > Microsecond(current_time)
          /\ \A i \in DOMAIN anomalies :
                \/ /\ anomalies[i].type \in {"identical_timestamps", "future_timestamp"}
                   /\ anomalies[i].severity = "high"
                \/ /\ anomalies[i].type \in {"illogical_order", "zero_precision"}
                   /\ anomalies[i].severity = "medium"
          /\ \A i, j \in DOMAIN anomalies :
                anomalies[i].type = anomalies[j].type => i = j

\* an entry was found identical to the second, out of order by its
\* microseconds, and in the future
C10_Witness ==
    /\ AnalyzedAllPresent
    /\ Len(analysis.anomalies) = 3
    /\ Reported("identical_timestamps", "high")
    /\ Reported("illogical_order", "medium")
    /\ Reported("future_timestamp", "high")
    /\ file_entry.created_time # file_entry.modified_time

---------------------------------------------------------------------------
\* weight if an anomaly of the type is in the list returned, 0.0 otherwise
Weighted(weight, type) ==
    IF \E i \in DOMAIN analysis.anomalies : analysis.anomalies[i].type = type
    THEN weight ELSE D0_0

\* 0.4*[identical] + 0.3*[order] + 0.2*[precision] + 0.5*[future], summed
\* from left to right in double arithmetic
WeightedSum ==
    DoubleAdd(DoubleAdd(DoubleAdd(Weighted(D0_4, "identical_timestamps"),
                                  Weighted(D0_3, "illogical_order")),
                        Weighted(D0_2, "zero_precision")),
              Weighted(D0_5, "future_timestamp"))

(* C11: for an entry with its three timestamps the confidence returned is  *)
(* min(1.0, 0.4*[identical_timestamps] + 0.3*[illogical_order] +           *)
(* 0.2*[zero_precision] + 0.5*[future_timestamp]) over the anomalies       *)
(* reported for it; for every entry the confidence lies in [0, 1].         *)
C11_ConfidenceIsCappedSum ==
    tpc = "analyzed" =>
       /\ ~MissingTimestamps(file_entry) =>
             analysis.confidence =
                (IF DoubleLess(D1_0, WeightedSum) THEN D1_0 ELSE WeightedSum)
       /\ ~DoubleLess(analysis.confidence, D0_0)
       /\ ~DoubleLess(D1_0, analysis.confidence)

\* the weights of the anomalies of an entry exceed 1.0 and its confidence is 1.0
C11_Witness ==
    /\ AnalyzedAllPresent
    /\ DoubleLess(D1_0, WeightedSum)
    /\ analysis.confidence = D1_0
    /\ Len(analysis.anomalies) = 3

---------------------------------------------------------------------------
(* C12: when one of the three timestamps of an entry is absent,            *)
(* analyze_timestamps returns exactly one anomaly, missing_timestamps of   *)
(* severity low, with confidence 0.0, and runs none of the four checks     *)
(* (the clock is not read, no details are filled in) whatever the          *)
(* timestamps that are present.                                            *)
C12_MissingStopsAnalysis ==
    (/\ tpc = "analyzed"
     /\ \E ts \in {file_entry.created_time, file_entry.modified_time,
                    file_entry.accessed_time} : ts = None) =>
       /\ Len(analysis.anomalies) = 1
       /\ analysis.anomalies[1].type = "missing_timestamps"
       /\ analysis.anomalies[1].severity = "low"
       /\ analysis.confidence = D0_0
       /\ analysis.details = <<>>
       /\ current_time = None

\* an entry without modified time was analysed whose two other timestamps
\* are identical, of zero precision and in the future
C12_Witness ==
    /\ tpc = "analyzed"
    /\ file_entry.modified_time = None
    /\ file_entry.created_time # None
    /\ file_entry.accessed_time # None
    /\ _check_identical_timestamps(file_entry)
    /\ _check_timestamp_precision(file_entry) # <<>>
    /\ \E t \in Clock : _check_future_timestamps(file_entry, t) # <<>>
    /\ Len(analysis.anomalies) = 1

---------------------------------------------------------------------------
\* analyze_directory has returned
DirectoryReported == tpc = "reported"

\* the positions of the entries modified in the second sec
SharingSecond(sec) ==
    {i \in DOMAIN entries : /\ entries[i].modified_time # None
                            /\ Second(entries[i].modified_time) = sec}

ModifiedSeconds ==
    {Second(entries[i].modified_time) :
        i \in {j \in DOMAIN entries : entries[j].modified_time # None}}

\* the n-th position of a set of positions, in input order
NthOf(S, n) == CHOOSE i \in S : Cardinality({j \in S : j < i}) = n - 1

(* C13: analyze_directory reports a mass_timestamp pattern for a second    *)
(* iff more than 3 entries have their modified time in it; every pattern   *)
(* has its own key, file_count is the size of the whole group and          *)
(* sample_files are the paths of its first min(5, size) members in input   *)
(* order; entries without modified time are in no group.                   *)
C13_MassTimestampPatterns ==
    DirectoryReported =>
       LET patterns == results.patterns
       IN /\ \A sec \in ModifiedSeconds :
                (\E p \in DOMAIN patterns : patterns[p].timestamp = <<sec>>)
                   <=> Cardinality(SharingSecond(sec)) > 3
          /\ \A p, q \in DOMAIN patterns :
                patterns[p].timestamp = patterns[q].timestamp => p = q
          /\ \A p \in DOMAIN patterns :
                /\ patterns[p].type = "mass_timestamp"
                /\ \E sec \in ModifiedSeconds :
                      LET members == SharingSecond(sec)
                          size == Cardinality(members)
                      IN /\ patterns[p].timestamp = <<sec>>
                         /\ patterns[p].file_count = size
                         /\ Len(patterns[p].sample_files) = IF size < 5 THEN size ELSE 5
                         /\ \A n \in DOMAIN patterns[p].sample_files :
                               patterns[p].sample_files[n]
                                  = entries[NthOf(members, n)].path

\* six entries modified in one second, not all at the same microsecond,
\* were reported with five samples
C13_Witness ==
    /\ DirectoryReported
    /\ Len(results.patterns) = 1
    /\ results.patterns[1].file_count = 6
    /\ Len(results.patterns[1].sample_files) = 5
    /\ \E i, j \in DOMAIN entries :
          /\ entries[i].modified_time # None
          /\ entries[j].modified_time # None
          /\ entries[i].modified_time # entries[j].modified_time

---------------------------------------------------------------------------
\* the confidence scores of the suspicious files of the report
SuspiciousScores ==
    [n \in DOMAIN results.suspicious_files |-> results.suspicious_files[n].confidence]

(* C14: in the summary of analyze_directory, average_confidence and        *)
(* max_confidence are the mean and the maximum of the confidence scores    *)
(* of the suspicious files only, and files_with_anomalies is their number. *)
C14_StatisticsOverSuspicious ==
    (DirectoryReported /\ results.statistics # <<>>) =>
       /\ results.statistics[1].files_with_anomalies = Len(results.suspicious_files)
       /\ results.suspicious_files # <<>> =>
             /\ results.statistics[1].average_confidence = Mean(SuspiciousScores)
             /\ results.statistics[1].max_confidence = Max(SuspiciousScores)

---------------------------------------------------------------------------
\* the names requested by the last call
RequestedNames ==
    IF call.algorithms = None THEN {"md5", "sha256"} ELSE Range(call.algorithms[1])

\* the supported algorithms among them, in lower case
SupportedRequested ==
    {LowerName(alg) : alg \in RequestedNames} \cap {"md5", "sha1", "sha256", "sha512"}

(* C18: calculate_file_hash and calculate_data_hash return a digest for    *)
(* exactly the requested algorithms that are in {md5, sha1, sha256,        *)
(* sha512}, the names compared without regard to case and the keys in      *)
(* lower case; an unsupported name raises no error and gives no key, and   *)
(* with no supported name the result is the empty mapping.                 *)
C18_UnsupportedDropped ==
    /\ call.op = "calculate_data_hash" =>
          /\ DOMAIN call.result = SupportedRequested
          /\ \A alg \in DOMAIN call.result :
                call.result[alg] = HexDigest(alg, call.data, FALSE)
    /\ call.op = "calculate_file_hash" =>
          /\ call.result.raised = "" <=> (disk[call.file_path] # <<>> /\ ~call.fails)
          /\ call.result.raised = "" =>
                /\ DOMAIN call.result.value = SupportedRequested
                /\ \A alg \in DOMAIN call.result.value :
                      call.result.value[alg]
                         = HexDigest(alg, disk[call.file_path][1], FALSE)

\* a file was hashed for an unsupported name and a supported one in upper
\* case: the result has the one key md5
C18_Witness ==
    /\ call.op = "calculate_file_hash"
    /\ call.algorithms = << <<"crc32", "MD5">> >>
    /\ call.result.raised = ""
    /\ DOMAIN call.result.value = {"md5"}
    /\ Len(disk[call.file_path][1]) > HashChunk

---------------------------------------------------------------------------
(* C16: verify_file_integrity returns one boolean per key of               *)
(* expected_hashes; for an existing file and a supported algorithm, named  *)
(* in any letter case, the value is true iff the fresh digest equals the   *)
(* expected one ignoring the case of the hex digits; for an unsupported    *)
(* algorithm it is false, and for a missing file every value is false.     *)
C16_VerifyPerAlgorithm ==
    (call.op = "verify_file_integrity" /\ ~call.fails) =>
       /\ call.result.raised = ""
       /\ DOMAIN call.result.value = DOMAIN call.expected_hashes
       /\ \A alg \in DOMAIN call.expected_hashes :
             call.result.value[alg] <=>
                /\ disk[call.file_path] # <<>>
                /\ LowerName(alg) \in {"md5", "sha1", "sha256", "sha512"}
                /\ LowerHex(call.expected_hashes[alg])
                      = HexDigest(LowerName(alg), disk[call.file_path][1], FALSE)

---------------------------------------------------------------------------
\* the rows of a table under the key (file_path, source_type)
RowsOfKey(table, file_path, source_type) ==
    {table[i] : i \in {j \in DOMAIN table : /\ table[j].file_path = file_path
                                            /\ table[j].source_type = source_type}}

\* the rows of a table under the other keys
RowsOfOtherKeys(table, file_path, source_type) ==
    Range(table) \ RowsOfKey(table, file_path, source_type)

\* the digest a row must hold for an algorithm after a store of hashes
DigestStored(hashes, alg) == IF alg \in DOMAIN hashes THEN hashes[alg] ELSE <<>>

C15_OnePerKey ==
    \A i, j \in DOMAIN file_hashes :
       i # j => \/ file_hashes[i].file_path # file_hashes[j].file_path
                \/ file_hashes[i].source_type # file_hashes[j].source_type

C15_StoreStep ==
    call'.op = "store_file_hash" =>
       /\ RowsOfOtherKeys(file_hashes', call'.file_path, call'.source_type)
             = RowsOfOtherKeys(file_hashes, call'.file_path, call'.source_type)
       /\ ~call'.result => file_hashes' = file_hashes
       /\ call'.result =>
             /\ Cardinality(RowsOfKey(file_hashes', call'.file_path, call'.source_type)) = 1
             /\ \A row \in RowsOfKey(file_hashes', call'.file_path, call'.source_type) :
                   /\ row.md5_hash = DigestStored(call'.hashes, "md5")
                   /\ row.sha1_hash = DigestStored(call'.hashes, "sha1")
                   /\ row.sha256_hash = DigestStored(call'.hashes, "sha256")
                   /\ row.sha512_hash = DigestStored(call'.hashes, "sha512")

(* C15: after any sequence of store_file_hash calls the table holds at     *)
(* most one row per (file_path, source_type); after a store the row of its *)
(* key holds exactly the digests of that store, a digest whose algorithm   *)
(* the store did not give being empty, and the rows of the other keys are  *)
(* the ones from before the call.                                          *)
C15_UpsertPerKey == []C15_OnePerKey /\ [][C15_StoreStep]_vars

\* a third store replaced the second row, of its own key, next to the row
\* of another key: the digest of sha256 the defaults give is gone
C15_Witness ==
    /\ call.op = "store_file_hash"
    /\ call.result
    /\ Len(file_hashes) = 2
    /\ file_hashes[1].id = 1
    /\ file_hashes[2].id = 3
    /\ file_hashes[2].file_path = call.file_path
    /\ file_hashes[2].source_type = call.source_type
    /\ file_hashes[1].file_path = call.file_path
    /\ file_hashes[1].source_type # call.source_type
    /\ file_hashes[1].sha256_hash # <<>>
    /\ file_hashes[2].sha256_hash = <<>>
    /\ file_hashes[2].sha1_hash # <<>>
    /\ file_hashes[2].calculated_at # file_hashes[1].calculated_at

---------------------------------------------------------------------------
\* the i-th path of the last batch was read and hashed
HashedAt(i) ==
    /\ disk[call.file_paths[i]] # <<>>
    /\ i \notin call.read_fails

\* it was hashed and the write to the store did not fail
WrittenAt(i) == HashedAt(i) /\ i \notin call.store_fails

\* the last position of a path in the batch
LastOf(path) ==
    CHOOSE i \in DOMAIN call.file_paths :
       /\ call.file_paths[i] = path
       /\ \A j \in DOMAIN call.file_paths : j > i => call.file_paths[j] # path

\* the digests of the file at path under the algorithms of the batch
DigestsOf(path) ==
    [alg \in SupportedRequested |-> HexDigest(alg, disk[path][1], FALSE)]

\* the row holds the digests of the file at its path
HoldsDigests(row) ==
    /\ row.source_type = "file_system"
    /\ row.md5_hash = DigestStored(DigestsOf(row.file_path), "md5")
    /\ row.sha1_hash = DigestStored(DigestsOf(row.file_path), "sha1")
    /\ row.sha256_hash = DigestStored(DigestsOf(row.file_path), "sha256")
    /\ row.sha512_hash = DigestStored(DigestsOf(row.file_path), "sha512")

\* the batch returns an entry for every path: the digests when the path was
\* hashed, an error marker when it was not, whatever happened to the paths
\* before it
BatchResultPerPath ==
    /\ call.raised = ""
    /\ DOMAIN call.result = Range(call.file_paths)
    /\ \A path \in Range(call.file_paths) :
          IF HashedAt(LastOf(path))
          THEN /\ DOMAIN call.result[path] = SupportedRequested
               /\ call.result[path] = DigestsOf(path)
          ELSE DOMAIN call.result[path] = {"error"}

\* the rows were written in the order of the batch: the id of a row counts
\* the writes up to the last write of its path
BatchInInputOrder ==
    \A row \in Range(file_hashes) :
       \E i \in DOMAIN call.file_paths :
          /\ call.file_paths[i] = row.file_path
          /\ WrittenAt(i)
          /\ \A j \in DOMAIN call.file_paths :
                (j > i /\ call.file_paths[j] = row.file_path) => ~WrittenAt(j)
          /\ row.id = Cardinality({j \in 1..i : WrittenAt(j)})

\* every path hashed has its row
BatchStoredAll ==
    hash_db_path =>
       \A i \in DOMAIN call.file_paths :
          HashedAt(i) =>
             \E row \in Range(file_hashes) :
                row.file_path = call.file_paths[i] /\ HoldsDigests(row)

\* every path hashed has its row unless each write of it failed
BatchStoredUnlessWriteFails ==
    /\ ~hash_db_path => file_hashes = <<>>
    /\ hash_db_path =>
          /\ \A i \in DOMAIN call.file_paths :
                WrittenAt(i) =>
                   \E row \in Range(file_hashes) :
                      row.file_path = call.file_paths[i] /\ HoldsDigests(row)
          /\ \A row \in Range(file_hashes) : HoldsDigests(row)

(* C17 as stated: batch_calculate_hashes goes through the paths in input   *)
(* order and returns an entry for every path, the digests for a path       *)
(* hashed and an error marker for a path whose hashing failed, a failure   *)
(* never keeping the later paths from being hashed; and with a case active *)
(* every path hashed is stored.                                            *)
C17_AsClaimed ==
    call.op = "batch_calculate_hashes" =>
       /\ BatchResultPerPath
       /\ hash_db_path => BatchInInputOrder
       /\ BatchStoredAll

(* C17 as the code has it: the same, but a path hashed is stored only if   *)
(* the write to the store succeeds; when the write fails the path keeps    *)
(* its digests in the result, has no row, and the batch goes on.           *)
C17_BatchContinues ==
    call.op = "batch_calculate_hashes" =>
       /\ BatchResultPerPath
       /\ hash_db_path => BatchInInputOrder
       /\ BatchStoredUnlessWriteFails

\* a batch of two paths with a case active: the first path
\* is missing and has its error marker, the second was hashed and stored
C17_Witness ==
    /\ call.op = "batch_calculate_hashes"
    /\ hash_db_path
    /\ Len(call.file_paths) = 2
    /\ call.file_paths[1] # call.file_paths[2]
    /\ disk[call.file_paths[1]] = <<>>
    /\ DOMAIN call.result[call.file_paths[1]] = {"error"}
    /\ DOMAIN call.result[call.file_paths[2]] = {"md5"}
    /\ Len(file_hashes) = 1
    /\ file_hashes[1].file_path = call.file_paths[2]
    /\ file_hashes[1].md5_hash # <<>>

---------------------------------------------------------------------------
\* the text that stands for a value in a CSV cell: nothing for None, the
\* decimal digits for an integer, the string itself for a string
FieldText(column, value) ==
    IF column = "file_size" THEN ToString(value)
    ELSE IF column \in {"file_path", "source_type"} THEN value
    ELSE IF value = <<>> THEN "" ELSE value

\* the field of the JSON object that a column of the CSV corresponds to
JsonField(object, column) ==
    CASE column = "file_path" -> object.file_path
      [] column = "file_size" -> object.file_size
      [] column = "md5_hash" -> object.md5
      [] column = "sha1_hash" -> object.sha1
      [] column = "sha256_hash" -> object.sha256
      [] column = "sha512_hash" -> object.sha512
      [] column = "calculated_at" -> object.calculated_at
      [] column = "source_type" -> object.source_type

\* the rows exported are the rows of the table, in ascending calculated_at
ExportedInTimeOrder ==
    /\ Len(call.rows) = Len(file_hashes)
    /\ Range(call.rows) = Range(file_hashes)
    /\ \A i, j \in DOMAIN call.rows :
          i < j => ~IsoLess(call.rows[j].calculated_at, call.rows[i].calculated_at)

(* C19: export_hash_report writes one row per stored record in ascending   *)
(* order of calculated_at, and the CSV export says what the JSON export of *)
(* the same rows says: the same records in the same order, every CSV cell  *)
(* the text of the value of the JSON field, also for a file size of 0 and  *)
(* for digests that are absent.                                            *)
C19_ExportsEquivalent ==
    (/\ call.op = "export_hash_report"
     /\ call.result.returned
     /\ call.result.written # <<>>) =>
       /\ ExportedInTimeOrder
       /\ call.result.written[1].format = "json" =>
             /\ Len(call.result.written[1].data) = Len(call.rows)
             /\ \A i \in DOMAIN call.rows : \A c \in DOMAIN Columns :
                   JsonField(call.result.written[1].data[i], Columns[c])
                      = call.rows[i][Columns[c]]
       /\ call.result.written[1].format = "csv" =>
             /\ Len(call.result.written[1].lines) = Len(call.rows)
             /\ \A i \in DOMAIN call.rows : \A c \in DOMAIN Columns :
                   call.result.written[1].lines[i][c]
                      = FieldText(Columns[c], JsonField(JsonArray(call.rows)[i], Columns[c]))

---------------------------------------------------------------------------
\* the path q lies beneath the path p
Beneath(p, q) == Len(p) < Len(q) /\ SubSeq(q, 1, Len(p)) = p

\* the iteration of its directory comes to entry i without raising
ReadBeforeFailure(f, i) ==
    \A j \in 1..i : f.parent[j] = f.parent[i] => f.kind[j] # "corrupt"

\* the entries walk_file_system can reach from a directory, in depth-first
\* pre-order: each entry of the directory that has a FileEntry, followed by
\* what lies beneath it when it is a readable directory that is not deleted
RECURSIVE PreorderFrom(_, _, _)
PreorderFrom(f, dir, i) ==
    IF i > f.n THEN <<>>
    ELSE (IF f.parent[i] = dir /\ f.kind[i] # "unreadable" /\ ReadBeforeFailure(f, i)
          THEN <<NodePath(f, i)>>
               \o (IF f.kind[i] = "dir" THEN PreorderFrom(f, i, 1) ELSE <<>>)
          ELSE <<>>)
         \o PreorderFrom(f, dir, i + 1)

C20_Order ==
    /\ \A j \in DOMAIN yields : yields[j].name \notin {".", ".."}
    /\ \A i, j \in DOMAIN yields : i # j => yields[i].path # yields[j].path
    /\ \A j \in DOMAIN yields :
          \A len \in 1..(Len(yields[j].path) - 1) :
             \E i \in 1..(j - 1) :
                /\ yields[i].path = SubSeq(yields[j].path, 1, len)
                /\ yields[i].is_directory
    /\ \A i, j, k \in DOMAIN yields :
          (i < j /\ j < k /\ Beneath(yields[i].path, yields[k].path))
             => Beneath(yields[i].path, yields[j].path)
    /\ wpc = "done" =>
          [j \in DOMAIN yields |-> yields[j].path]
             = IF fs_info THEN PreorderFrom(file_system, 0, 1) ELSE <<>>

(* C20: on a finite directory tree walk_file_system terminates, and what   *)
(* it yields is in depth-first pre-order: every directory comes before     *)
(* each entry beneath it, the entries beneath a directory come before the  *)
(* directory's next sibling, no entry comes twice, and "." and ".." never  *)
(* come.                                                                   *)
C20_DepthFirstPreorder == []C20_Order /\ <>(wpc = "done")

\* a walk is over that yielded a directory, the entry in it, and then the
\* directory's sibling
C20_Witness ==
    /\ wpc = "done"
    /\ Len(yields) = 3
    /\ yields[1].path = <<"a">>
    /\ yields[2].path = <<"a", "c">>
    /\ yields[3].path = <<"b">>

---------------------------------------------------------------------------
\* the positions of the files, not directories, modified in the second sec
FilesSharingSecond(sec) == {i \in SharingSecond(sec) : ~entries[i].is_directory}

(* C27: only entries that are not directories are members of a             *)
(* mass-timestamp group: a second has a pattern iff more than 3 files were *)
(* modified in it, file_count counts the files only, and no path of a      *)
(* directory is among sample_files.                                        *)
C27_GroupsOfFilesOnly ==
    DirectoryReported =>
       /\ \A sec \in ModifiedSeconds :
             (\E p \in DOMAIN results.patterns : results.patterns[p].timestamp = <<sec>>)
                <=> Cardinality(FilesSharingSecond(sec)) > 3
       /\ \A p \in DOMAIN results.patterns :
             /\ \A sec \in ModifiedSeconds :
                   results.patterns[p].timestamp = <<sec>> =>
                      results.patterns[p].file_count
                         = Cardinality(FilesSharingSecond(sec))
             /\ \A n \in DOMAIN results.patterns[p].sample_files :
                   ~entries[results.patterns[p].sample_files[n]].is_directory

---------------------------------------------------------------------------
(* C28: every record has size <= max_size of its signature and             *)
(* offset + size <= image size; a record whose footer was not found has    *)
(* size = min(max_size, image size - offset); and in no carve does the     *)
(* read loop hold more than max_size bytes.                                *)
C28_SizeBounds ==
    /\ \A i \in DOMAIN carved_files :
          LET record == carved_files[i]
              max_size == FILE_SIGNATURES[record.type].max_size
          IN /\ record.size <= max_size
             /\ record.offset + record.size <= ImageSize
             /\ ~record.footer_found =>
                   record.size = IF max_size < ImageSize - record.offset
                                 THEN max_size ELSE ImageSize - record.offset
    /\ \A i \in DOMAIN attempts :
          attempts[i].size <= FILE_SIGNATURES[attempts[i].ext].max_size
    \* every carve is the last one in the state it is appended in
    /\ attempts # <<>> =>
          LET last == attempts[Len(attempts)]
          IN ReadLoopPeak(FILE_SIGNATURES[last.ext], ImageSize, last.offset, <<>>)
                <= FILE_SIGNATURES[last.ext].max_size

\* one record ends at the end of the image below its cap, without a footer,
\* and another one, read in more than one piece, stops at its cap
C28_Witness ==
    /\ \E i \in DOMAIN carved_files :
          /\ ~carved_files[i].footer_found
          /\ carved_files[i].offset + carved_files[i].size = ImageSize
          /\ carved_files[i].size < FILE_SIGNATURES[carved_files[i].type].max_size
    /\ \E i \in DOMAIN carved_files :
          /\ ~carved_files[i].footer_found
          /\ carved_files[i].size = FILE_SIGNATURES[carved_files[i].type].max_size
          /\ carved_files[i].size > CarveChunk
          /\ carved_files[i].offset + carved_files[i].size < ImageSize

---------------------------------------------------------------------------
(* C25: in the list one scan returns, no two records have the same         *)
(* (type, offset) pair.                                                    *)
C25_OneRecordPerHeader ==
    pc \in {"returned", "done"} =>
       \A i, j \in DOMAIN returned :
          (/\ returned[i].type = returned[j].type
           /\ returned[i].offset = returned[j].offset) => i = j

---------------------------------------------------------------------------
\* the file at the record's path exists and holds the bytes the record reports
FileOfRecord(record) ==
    /\ record.path \in DOMAIN files
    /\ Len(files[record.path]) = record.size
    /\ files[record.path] = record.hash_md5

\* no other record of the returned list has the path of record i
OwnPath(i) == \A j \in DOMAIN returned : returned[j].path = returned[i].path => i = j

(* C26: when carve_files returns, the file at every record's path exists   *)
(* and holds the bytes whose length and MD5 the record reports, and no two *)
(* records share a path.                                                   *)
C26_OwnOutputFile ==
    pc \in {"returned", "done"} =>
       \A i \in DOMAIN returned : FileOfRecord(returned[i]) /\ OwnPath(i)

---------------------------------------------------------------------------
(* C24: a stop() issued after the thread was started and before the scan   *)
(* has read its last chunk makes carve_files return without having read    *)
(* all the chunks of the image.                                            *)
C24_NoStopLost ==
    (pc \in {"returned", "done"} /\ stop_requested) => chunks_read < TotalChunks

---------------------------------------------------------------------------
\* entry i can be read from the file system: the iteration of each directory
\* above it comes to the entry on the way without raising, and each of
\* these directories, deleted or not, can be opened
RECURSIVE Listed(_, _)
Listed(f, i) ==
    /\ ReadBeforeFailure(f, i)
    /\ \/ f.parent[i] = 0
       \/ /\ f.kind[f.parent[i]] \in {"dir", "deleted_dir"}
          /\ Listed(f, f.parent[i])

(* C21: every deleted entry of the file-system tree is yielded by          *)
(* walk_file_system with is_deleted = true, the entries inside a deleted   *)
(* directory as well as the deleted directory itself.                      *)
C21_DeletedYielded ==
    wpc = "done" =>
       \A i \in 1..file_system.n :
          (file_system.kind[i] \in {"deleted_file", "deleted_dir"} /\ Listed(file_system, i))
             => \E j \in DOMAIN yields :
                   /\ yields[j].path = NodePath(file_system, i)
                   /\ yields[j].is_deleted

---------------------------------------------------------------------------
\* the reading of the directory d (0 is the root) fails: it cannot be
\* opened, or its iteration raises at one of its entries
ListingFails(f, d) ==
    \/ d > 0 /\ f.kind[d] = "broken_dir"
    \/ \E c \in 1..f.n : f.parent[c] = d /\ f.kind[c] = "corrupt"

\* the walk has to come to entry i: it has a FileEntry, it is read before
\* its directory fails, and its directory is the root or a directory that
\* is not deleted to which the walk has to come
RECURSIVE Walked(_, _)
Walked(f, i) ==
    /\ f.kind[i] # "unreadable"
    /\ ReadBeforeFailure(f, i)
    /\ \/ f.parent[i] = 0
       \/ f.kind[f.parent[i]] = "dir" /\ Walked(f, f.parent[i])

YieldedPaths == {yields[j].path : j \in DOMAIN yields}

(* C22: when the listing of a directory D fails during the walk, the walk  *)
(* still runs to its end, and the entries of D read before the failure     *)
(* and the entries outside D's subtree are yielded.                        *)
C22_ListingFailureIsLocal ==
    (wpc = "done" /\ fs_info) =>
       \A d \in 0..file_system.n :
          (ListingFails(file_system, d) /\ (d = 0 \/ Walked(file_system, d))) =>
             \A i \in 1..file_system.n :
                /\ (file_system.parent[i] = d /\ Walked(file_system, i))
                      => NodePath(file_system, i) \in YieldedPaths
                /\ (Walked(file_system, i)
                    /\ ~Beneath(NodePath(file_system, d), NodePath(file_system, i)))
                      => NodePath(file_system, i) \in YieldedPaths

\* a walk is over in which the iteration of a directory raised and the
\* directory's next sibling was yielded after it
C22_Witness ==
    /\ wpc = "done"
    /\ \E d, c, sib \in 1..file_system.n :
          /\ file_system.kind[d] = "dir"
          /\ file_system.parent[d] = 0
          /\ file_system.parent[c] = d
          /\ file_system.kind[c] = "corrupt"
          /\ file_system.parent[sib] = 0
          /\ sib > d
          /\ \E j, k \in DOMAIN yields :
                /\ j < k
                /\ yields[j].path = NodePath(file_system, d)
                /\ yields[k].path = NodePath(file_system, sib)

---------------------------------------------------------------------------
\* what the calls of a parser that was never opened give
NeverOpened(op, result) ==
    /\ op = "get_partitions" => result = <<>>
    /\ op = "open_file_system" => result = FALSE
    /\ op = "get_file_entries" => result = <<>>
    /\ op = "get_file_content" => result = None
    /\ op = "walk_file_system" => result = <<>>

(* C23: after close(), called any number of times in any state, the parser *)
(* of either class is as it was when built, and get_partitions returns [], *)
(* open_file_system False, get_file_entries [], get_file_content None and  *)
(* walk_file_system yields nothing.                                        *)
C23_CloseResets ==
    closes > 0 =>
       /\ parser = (IF parser.class = "MockParser" THEN MockParser ELSE PyTSKParser)
       /\ NeverOpened(reply[1], reply[2])

---------------------------------------------------------------------------
(* C29: when an image was parsed in the viewer and the hashing of selected *)
(* files is started, the parser given to the hashing thread can read: no   *)
(* file that can be read gets the 'Could not read file content' marker.    *)
C29_HashingReadsOpenParser ==
    \A k \in DOMAIN hash_thread.results :
       hash_thread.file_entries[k].content # None => ~hash_thread.results[k].error

---------------------------------------------------------------------------
\* the analyses of the report for the path, with zero_precision among the
\* anomalies
ZeroPrecisionReports(path) ==
    {n \in DOMAIN results.suspicious_files :
        /\ results.suspicious_files[n].file_path = path
        /\ \E a \in DOMAIN results.suspicious_files[n].anomalies :
              results.suspicious_files[n].anomalies[a].type = "zero_precision"}

(* C30: the timestamps of a FileEntry built from file-system metadata have *)
(* microsecond 0, so for every entry that is not a directory and has its   *)
(* three timestamps zero_precision is reported, the confidence is at least *)
(* 0.2, and analyze_directory lists the entry among the suspicious files.  *)
C30_WalkedEntriesFlagged ==
    /\ \A i \in DOMAIN entries :
          \A n \in DOMAIN PresentTimestamps(entries[i]) :
             Microsecond(PresentTimestamps(entries[i])[n]) = 0
    /\ DirectoryReported =>
          \A i \in DOMAIN entries :
             (~entries[i].is_directory /\ ~MissingTimestamps(entries[i])) =>
                /\ ZeroPrecisionReports(entries[i].path) # {}
                /\ \A n \in ZeroPrecisionReports(entries[i].path) :
                      ~DoubleLess(results.suspicious_files[n].confidence, D0_2)

\* a file with three different timestamps in their order is reported with
\* zero_precision as its only anomaly and confidence 0.2
C30_Witness ==
    /\ DirectoryReported
    /\ \E i \in DOMAIN entries :
          /\ ~entries[i].is_directory
          /\ ~MissingTimestamps(entries[i])
          /\ entries[i].created_time # entries[i].modified_time
          /\ \E n \in ZeroPrecisionReports(entries[i].path) :
                /\ Len(results.suspicious_files[n].anomalies) = 1
                /\ results.suspicious_files[n].confidence = D0_2

=============================================================================
